---------------------------- MODULE Spec2Model ----------------------------
(***************************************************************************)
(* A model of the c64-rs emulator core: the bank-switched memory           *)
(* (memory.rs), the 6502 interpreter (cpu.rs), the two CIA timer chips     *)
(* (cia1.rs, cia2.rs), the VIC-II raster engine (vic.rs), the host adapter *)
(* (io.rs) and the run loop that steps them (main.rs).                     *)
(*                                                                         *)
(* Rust integers keep their width: u8 values live in 0..255, u16 in        *)
(* 0..65535, u32 in 0..2^32-1.  Plain +, - and += on them panic when the   *)
(* build has overflow checks (the debug profile) and wrap when it has not  *)
(* (the release profile); overflow_checks is that property of the build.   *)
(* A panic (todo!(), a failed unwrap, an overflow check) ends the process: *)
(* panicked becomes TRUE and nothing steps any more.                       *)
(*                                                                         *)
(* The model checker's integers are 32 bits wide and signed, so a u32 is   *)
(* held as its 32 bits read in two's complement: 0 .. 2^31-1 as they are,  *)
(* 2^31 .. 2^32-1 as -2^31 .. -1.  The counter value 2^32 - 3 is -3, and   *)
(* the u32 after 2^32 - 1 (that is, after -1) is 0.                        *)
(***************************************************************************)
EXTENDS Integers, Sequences, FiniteSets, TLC

VARIABLES
    cpu,              \* Cpu: pc sp a x y cycles cf zf idf dmf bcf of nf
    mem_ram,          \* Memory.mem_ram, the cells that are not 0
    mem_rom,          \* Memory.mem_rom, the cells that are not 0
    banks,            \* Memory.banks: [u8; 7]
    cia1,             \* Cia1
    cia2,             \* Cia2
    vic,              \* Vic
    io,               \* IO: keyboard_matrix, retval, the host's event queue
    loop,             \* where run_c64 stands in its loop body
    panicked,         \* the process has panicked
    overflow_checks,  \* the build checks integer overflow (debug profile)
    obs               \* the last operation: its name, inputs and result

vars == <<cpu, mem_ram, mem_rom, banks, cia1, cia2, vic, io, loop, panicked,
          overflow_checks, obs>>

-----------------------------------------------------------------------------
(* Fixed-width integer arithmetic.                                         *)

U8  == 256
U16 == 65536

\* u32 values (see above): a < b, a + v and a - b as the hardware computes
\* them, v being a small number that is not negative.
MaxI32 == 2147483647
Lt32(a, b) == IF (a < 0) = (b < 0) THEN a < b ELSE b < 0
Add32(a, v) == IF a > MaxI32 - v THEN ((a - MaxI32) + (v - 1)) + (-MaxI32 - 1) ELSE a + v
Sub32(a, b) == a - b

RECURSIVE BitAnd(_, _)
BitAnd(a, b) ==
    IF a = 0 \/ b = 0 THEN 0
    ELSE (a % 2) * (b % 2) + 2 * BitAnd(a \div 2, b \div 2)

BitOr(a, b)  == a + b - BitAnd(a, b)
BitXor(a, b) == a + b - 2 * BitAnd(a, b)

is_bit_set(v, n) == (v \div (2 ^ n)) % 2 = 1

\* u8 as i8, u16 as i16
AsI8(v)  == IF v >= 128 THEN v - 256 ELSE v
AsI16(v) == IF v % U16 >= 32768 THEN (v % U16) - U16 ELSE v % U16

-----------------------------------------------------------------------------
(* Memory (memory.rs).  RAM and ROM are vec![0; MEM_SIZE]: a cell that is  *)
(* not in the function's domain holds 0.                                   *)

Rom == 0
Ram == 1
Io  == 2

BankBasic  == 3
BankCharen == 5
BankKernal == 6

ADDR_MEMORY_LAYOUT     == \h0001
ADDR_ZERO_PAGE         == \h0000
ADDR_VIC_FIRST_PAGE    == \hd000
ADDR_VIC_LAST_PAGE     == \hd300
ADDR_CIA1_PAGE         == \hdc00
ADDR_CIA2_PAGE         == \hdd00
ADDR_BASIC_FIRST_PAGE  == \ha000
ADDR_BASIC_LAST_PAGE   == \hbf00
ADDR_KERNAL_FIRST_PAGE == \he000
ADDR_KERNAL_LAST_PAGE  == \hff00
BASE_ADDR_STACK        == \h0100
ADDR_IRQ_VECTOR        == \hfffe
ADDR_NMI_VECTOR        == \hfffa
LORAM  == 1
HIRAM  == 2
CHAREN == 4

Peek(mem, a) == IF a \in DOMAIN mem THEN mem[a] ELSE 0

Poke(mem, a, v) ==
    IF v = 0 THEN [x \in DOMAIN mem \ {a} |-> mem[x]]
    ELSE [x \in DOMAIN mem \cup {a} |-> IF x = a THEN v ELSE mem[x]]

PageOf(addr) == addr - (addr % 256)

\* The machine a memory or CPU operation works on and returns.
Mach ==
    [cpu |-> cpu, mem_ram |-> mem_ram, banks |-> banks, panicked |-> panicked,
     cia1 |-> cia1, cia2 |-> cia2, vic |-> vic, io |-> io]

Panic(s) == [s EXCEPT !.panicked = TRUE]

write_byte_no_io(s, addr, value) ==
    [s EXCEPT !.mem_ram = Poke(s.mem_ram, addr, value)]

\* bank_config with BASIC mapped by LORAM alone.
bank_config_basic_by_loram(config) ==
    [i \in 0..6 |->
        IF i = BankKernal THEN (IF BitAnd(config, HIRAM) # 0 THEN Rom ELSE Ram)
        ELSE IF i = BankBasic THEN (IF BitAnd(config, LORAM) # 0 THEN Rom ELSE Ram)
        ELSE IF i = BankCharen THEN
            (IF BitAnd(config, CHAREN) # 0 /\ BitAnd(config, LORAM + HIRAM) # 0 THEN Io
             ELSE IF BitAnd(config, CHAREN) # 0 THEN Ram
             ELSE Rom)
        ELSE Ram]

\* The banks array that setup_memory_banks leaves for a layout byte.
bank_config(config) ==
    LET hiram  == BitAnd(config, HIRAM) # 0
        loram  == BitAnd(config, LORAM) # 0
        charen == BitAnd(config, CHAREN) # 0
    IN [i \in 0..6 |->
          IF i = BankKernal THEN (IF hiram THEN Rom ELSE Ram)
          ELSE IF i = BankBasic THEN (IF loram /\ hiram THEN Rom ELSE Ram)
          ELSE IF i = BankCharen THEN
              (IF charen /\ (loram \/ hiram) THEN Io
               ELSE IF charen /\ ~loram /\ ~hiram THEN Ram
               ELSE Rom)
          ELSE Ram]

\* setup_memory_banks without its last statement, the store to $0001.
setup_memory_banks_no_store(s, config) == [s EXCEPT !.banks = bank_config(config)]

\* The ROM files are read again on every call; they do not change, so
\* mem_rom stays what it is.
setup_memory_banks(s, config) ==
    write_byte_no_io([s EXCEPT !.banks = bank_config(config)], ADDR_MEMORY_LAYOUT, config)

\* The branch of write_byte's if-chain that an address takes.
write_target(b, addr) ==
    LET page == PageOf(addr) IN
    IF page = ADDR_ZERO_PAGE THEN
        (IF addr = ADDR_MEMORY_LAYOUT THEN "layout" ELSE "ram")
    ELSE IF page >= ADDR_VIC_FIRST_PAGE /\ addr <= ADDR_VIC_LAST_PAGE THEN
        (IF b[BankCharen] = Io THEN "vic" ELSE "ram")
    ELSE IF page = ADDR_CIA1_PAGE THEN
        (IF b[BankCharen] = Io THEN "cia1" ELSE "ram")
    ELSE IF page = ADDR_CIA2_PAGE THEN
        (IF b[BankCharen] = Io THEN "cia2" ELSE "ram")
    ELSE "ram"

\* write_byte that keeps a write off the RAM under a mapped ROM.
write_byte_rom_protected(s, addr, value) ==
    LET t == write_target(s.banks, addr) IN
    IF t = "layout" THEN setup_memory_banks(s, value)
    ELSE IF t = "ram" THEN
        (IF    \/ addr \in \ha000..\hbfff /\ s.banks[BankBasic] = Rom
               \/ addr \in \he000..\hffff /\ s.banks[BankKernal] = Rom
         THEN s
         ELSE [s EXCEPT !.mem_ram = Poke(s.mem_ram, addr, value)])
    ELSE IF t = "cia2" THEN s
    ELSE Panic(s)

\* "vic" and "cia1" are todo!(); the "cia2" branch is empty.
write_byte(s, addr, value) ==
    LET t == write_target(s.banks, addr) IN
    IF t = "layout" THEN setup_memory_banks(s, value)
    ELSE IF t = "ram" THEN [s EXCEPT !.mem_ram = Poke(s.mem_ram, addr, value)]
    ELSE IF t = "cia2" THEN s
    ELSE Panic(s)

\* The arm of read_byte's match that an address takes.
read_source(b, addr) ==
    LET page == PageOf(addr) IN
    IF page >= ADDR_VIC_FIRST_PAGE /\ page <= ADDR_VIC_LAST_PAGE THEN
        (IF b[BankCharen] = Io THEN "vic"
         ELSE IF b[BankCharen] = Rom THEN "rom" ELSE "ram")
    ELSE IF page = ADDR_CIA1_PAGE THEN
        (IF b[BankCharen] = Io THEN "cia1" ELSE "ram")
    ELSE IF page = ADDR_CIA2_PAGE THEN
        (IF b[BankCharen] = Io THEN "cia2" ELSE "ram")
    ELSE IF page >= ADDR_BASIC_FIRST_PAGE /\ page <= ADDR_BASIC_LAST_PAGE THEN
        (IF b[BankBasic] = Rom THEN "rom" ELSE "ram")
    ELSE IF page >= ADDR_KERNAL_FIRST_PAGE /\ page <= ADDR_KERNAL_LAST_PAGE THEN
        (IF b[BankKernal] = Rom THEN "rom" ELSE "ram")
    ELSE "ram"

\* All three device arms are todo!(): the read panics and yields no value.
read_panics(s, addr) == read_source(s.banks, addr) \notin {"rom", "ram"}

read_byte(s, addr) ==
    LET src == read_source(s.banks, addr) IN
    IF src = "rom" THEN Peek(mem_rom, addr)
    ELSE IF src = "ram" THEN Peek(s.mem_ram, addr)
    ELSE 0

-----------------------------------------------------------------------------
(* CPU (cpu.rs).  An operation takes the machine s and returns it changed; *)
(* one that also yields a value returns [s |-> machine, v |-> value].      *)

\* Sequencing: the value of e is computed once and F works on it.
With(e, F(_)) == CHOOSE r \in {F(x) : x \in {e}} : TRUE

\* A plain +, - or += on a u8 or u16 (modulus 2^8 or 2^16).
Checked(s, val, modulus) ==
    [s |-> IF overflow_checks /\ (val < 0 \/ val >= modulus) THEN Panic(s) ELSE s,
     v |-> val % modulus]

\* A plain + or += on a u32, and a plain - of two u32.
CheckedAdd32(s, a, v) ==
    [s |-> IF overflow_checks /\ a < 0 /\ Add32(a, v) >= 0 THEN Panic(s) ELSE s,
     v |-> Add32(a, v)]

CheckedSub32(s, a, b) ==
    [s |-> IF overflow_checks /\ Lt32(a, b) THEN Panic(s) ELSE s, v |-> Sub32(a, b)]

load_byte(s, addr) ==
    [s |-> IF read_panics(s, addr) THEN Panic(s) ELSE s, v |-> read_byte(s, addr)]

read_word(s, addr) ==
    With(load_byte(s, addr), LAMBDA lsb :
    With(Checked(lsb.s, addr + 1, U16), LAMBDA next :
    With(load_byte(next.s, next.v), LAMBDA msb :
    [s |-> msb.s, v |-> msb.v * 256 + lsb.v])))

tick(s, v) ==
    With(CheckedAdd32(s, s.cpu.cycles, v), LAMBDA t : [t.s EXCEPT !.cpu.cycles = t.v])

fetch_op(s) ==
    With(load_byte(s, s.cpu.pc), LAMBDA b :
    [s |-> [b.s EXCEPT !.cpu.pc = (@ + 1) % U16], v |-> b.v])

fetch_opw(s) ==
    With(read_word(s, s.cpu.pc), LAMBDA w :
    [s |-> [w.s EXCEPT !.cpu.pc = (@ + 2) % U16], v |-> w.v])

push(s, v) ==
    With(write_byte(s, BASE_ADDR_STACK + s.cpu.sp, v), LAMBDA t :
    [t EXCEPT !.cpu.sp = (@ - 1) % U8])

\* pop that reads the cell under SP before it moves SP.
pop_reads_first(s) ==
    With(load_byte(s, s.cpu.sp + BASE_ADDR_STACK), LAMBDA r :
    [s |-> [r.s EXCEPT !.cpu.sp = (@ + 1) % U8], v |-> r.v])

pop(s) ==
    With([s EXCEPT !.cpu.sp = (@ + 1) % U8], LAMBDA t :
    load_byte(t, t.cpu.sp + BASE_ADDR_STACK))

B(flag) == IF flag THEN 1 ELSE 0

\* flags without the B bit.
flags_b_clear(c) ==
    B(c.cf) + 2 * B(c.zf) + 4 * B(c.idf) + 8 * B(c.dmf) + 32
    + 64 * B(c.of) + 128 * B(c.nf)

flags(c) ==
    B(c.cf) + 2 * B(c.zf) + 4 * B(c.idf) + 8 * B(c.dmf) + 16 + 32
    + 64 * B(c.of) + 128 * B(c.nf)

\* set_flags that takes the B flag from bit 4 as well.
set_flags_with_b(c, v) ==
    [c EXCEPT !.cf = is_bit_set(v, 0), !.zf = is_bit_set(v, 1),
              !.idf = is_bit_set(v, 2), !.dmf = is_bit_set(v, 3),
              !.bcf = is_bit_set(v, 4),
              !.of = is_bit_set(v, 6), !.nf = is_bit_set(v, 7)]

set_flags(c, v) ==
    [c EXCEPT !.cf = is_bit_set(v, 0), !.zf = is_bit_set(v, 1),
              !.idf = is_bit_set(v, 2), !.dmf = is_bit_set(v, 3),
              !.of = is_bit_set(v, 6), !.nf = is_bit_set(v, 7)]

set_zf(c, val) == [c EXCEPT !.zf = (val = 0)]
set_nf(c, val) == [c EXCEPT !.nf = (BitAnd(val, \h80) # 0)]
set_zn(c, val) == set_nf(set_zf(c, val), val)

\* The addr_* functions: the effective address of an addressing mode.
addr_mode(s, mode) ==
    IF mode = "zero" THEN fetch_op(s)
    ELSE IF mode \in {"zerox", "zeroy"} THEN
        With(fetch_op(s), LAMBDA f :
        [s |-> f.s,
         v |-> BitAnd(f.v + (IF mode = "zerox" THEN f.s.cpu.x ELSE f.s.cpu.y), \hff)])
    ELSE IF mode = "abs" THEN fetch_opw(s)
    ELSE IF mode \in {"absx", "absy"} THEN
        With(fetch_opw(s), LAMBDA f :
        [s |-> f.s,
         v |-> (f.v + (IF mode = "absx" THEN f.s.cpu.x ELSE f.s.cpu.y)) % U16])
    ELSE IF mode = "indx" THEN
        With(fetch_op(s), LAMBDA f : read_word(f.s, BitAnd(f.v + f.s.cpu.x, \hff)))
    ELSE \* "indy"
        With(fetch_op(s), LAMBDA f :
        With(read_word(f.s, f.v), LAMBDA w :
        Checked(w.s, w.v + w.s.cpu.y, U16)))

\* The value an arm hands to its operation: fetch_op() or load_byte(addr).
operand(s, mode) ==
    IF mode = "imm" THEN fetch_op(s)
    ELSE With(addr_mode(s, mode), LAMBDA a : load_byte(a.s, a.v))

\* The body of irq and nmi: the return address, the status with B clear,
\* the vector.  irq sets the I flag, nmi does not.
interrupt(s, vector, set_idf) ==
    With(push(s, s.cpu.pc \div 256), LAMBDA s1 :
    With(push(s1, BitAnd(s1.cpu.pc, \hff)), LAMBDA s2 :
    With(push(s2, BitAnd(flags(s2.cpu), \hef)), LAMBDA s3 :
    With(read_word(s3, vector), LAMBDA w :
    tick([w.s EXCEPT !.cpu.pc = w.v, !.cpu.idf = IF set_idf THEN TRUE ELSE @], 7)))))

\* irq that does not test the I flag.
irq_unmasked(s) == interrupt(s, ADDR_IRQ_VECTOR, TRUE)

irq(s) == IF ~s.cpu.idf THEN interrupt(s, ADDR_IRQ_VECTOR, TRUE) ELSE s

\* nmi that sets the I flag as irq does.
nmi_sets_i(s) == interrupt(s, ADDR_NMI_VECTOR, TRUE)

nmi(s) == interrupt(s, ADDR_NMI_VECTOR, FALSE)

brk(s) ==
    With((s.cpu.pc + 1) % U16, LAMBDA pc :
    With(push(s, pc \div 256), LAMBDA s1 :
    With(push(s1, BitAnd(pc, \hff)), LAMBDA s2 :
    With(push(s2, flags(s2.cpu)), LAMBDA s3 :
    With(read_word(s3, ADDR_IRQ_VECTOR), LAMBDA w :
    tick([w.s EXCEPT !.cpu.pc = w.v, !.cpu.idf = TRUE, !.cpu.bcf = TRUE], 7))))))

php(s) == With(push(s, flags(s.cpu)), LAMBDA t : tick(t, 3))

plp(s) == With(pop(s), LAMBDA p : tick([p.s EXCEPT !.cpu = set_flags(@, p.v)], 4))

pha(s) == With(push(s, s.cpu.a), LAMBDA t : tick(t, 3))

pla(s) ==
    With(pop(s), LAMBDA p :
    tick([p.s EXCEPT !.cpu = set_zn([@ EXCEPT !.a = p.v], p.v)], 4))

\* rti that pops the high byte of PC before the low byte.
rti_high_first(s) ==
    With(pop(s), LAMBDA p :
    With(pop([p.s EXCEPT !.cpu = set_flags(@, p.v)]), LAMBDA hi :
    With(pop(hi.s), LAMBDA lo :
    tick([lo.s EXCEPT !.cpu.pc = lo.v + hi.v * 256], 7))))

rti(s) ==
    With(pop(s), LAMBDA p :
    With(pop([p.s EXCEPT !.cpu = set_flags(@, p.v)]), LAMBDA lo :
    With(pop(lo.s), LAMBDA hi :
    tick([hi.s EXCEPT !.cpu.pc = lo.v + hi.v * 256], 7))))

rts(s) ==
    With(pop(s), LAMBDA lo :
    With(pop(lo.s), LAMBDA hi :
    With(Checked(hi.s, lo.v + hi.v * 256 + 1, U16), LAMBDA a :
    tick([a.s EXCEPT !.cpu.pc = a.v], 6))))

jsr(s) ==
    With(fetch_opw(s), LAMBDA a :
    With((a.s.cpu.pc - 1) % U16, LAMBDA r :
    With(push(a.s, r \div 256), LAMBDA s1 :
    With(push(s1, BitAnd(r, \hff)), LAMBDA s2 :
    tick([s2 EXCEPT !.cpu.pc = a.v], 6)))))

jmp(s) == With(fetch_opw(s), LAMBDA a : tick([a.s EXCEPT !.cpu.pc = a.v], 3))

jmp_ind(s) ==
    With(fetch_opw(s), LAMBDA a :
    With(read_word(a.s, a.v), LAMBDA w :
    tick([w.s EXCEPT !.cpu.pc = w.v], 3)))

\* bmi bvc bvs bcc bcs bne beq: (pc as i16).wrapping_add(offset as i16) as u16
branch(s, taken) ==
    With(fetch_op(s), LAMBDA f :
    tick([f.s EXCEPT !.cpu.pc = IF taken THEN (@ + AsI8(f.v)) % U16 ELSE @], 2))

\* bpl adds the two i16 with a plain +
bpl(s) ==
    With(fetch_op(s), LAMBDA f :
    With(AsI8(f.v) + AsI16(f.s.cpu.pc), LAMBDA sum :
    With(IF overflow_checks /\ (sum < -32768 \/ sum > 32767) THEN Panic(f.s) ELSE f.s,
         LAMBDA t :
    tick([t EXCEPT !.cpu.pc = IF ~t.cpu.nf THEN sum % U16 ELSE @], 2))))

\* ora and eor
logic(s, mn, v, cycles) ==
    With(IF mn = "ora" THEN BitOr(s.cpu.a, v)
         ELSE IF mn = "and" THEN BitAnd(s.cpu.a, v)
         ELSE BitXor(s.cpu.a, v), LAMBDA a :
    tick([s EXCEPT !.cpu = set_zn([@ EXCEPT !.a = a], a)], cycles))

\* lda ldx ldy
load(s, mn, v, cycles) ==
    tick([s EXCEPT !.cpu = set_zn(IF mn = "lda" THEN [@ EXCEPT !.a = v]
                                  ELSE IF mn = "ldx" THEN [@ EXCEPT !.x = v]
                                  ELSE [@ EXCEPT !.y = v], v)], cycles)

\* sta stx sty
store(s, mn, addr, cycles) ==
    With(write_byte(s, addr, IF mn = "sta" THEN s.cpu.a
                             ELSE IF mn = "stx" THEN s.cpu.x ELSE s.cpu.y), LAMBDA t :
    tick(t, cycles))

\* cmp cpx cpy
compare(s, mn, v, cycles) ==
    With(((IF mn = "cmp" THEN s.cpu.a ELSE IF mn = "cpx" THEN s.cpu.x ELSE s.cpu.y) - v)
         % U16, LAMBDA t :
    tick([s EXCEPT !.cpu = set_zn([@ EXCEPT !.cf = (t < \h100)], t % U8)], cycles))

bit(s, addr, cycles) ==
    With(load_byte(s, addr), LAMBDA t :
    tick([t.s EXCEPT !.cpu = set_zf(set_nf([@ EXCEPT !.of = (BitAnd(t.v, \h40) # 0)], t.v),
                                    BitAnd(t.v, @.a))], cycles))

\* The u16 t of adc before self.cf is taken from it.
\* adc_sum that leaves the carry out of the binary sum.
adc_sum_no_carry(a, v, c, dmf) ==
    IF dmf THEN
        With(BitAnd(a, \hf) + BitAnd(v, \hf) + c, LAMBDA lo :
        With((IF lo > 9 THEN lo + 6 ELSE lo) + BitAnd(a, \hf0) + BitAnd(v, \hf0), LAMBDA hi :
        IF BitAnd(hi, \h1f0) > \h90 THEN hi + \h60 ELSE hi))
    ELSE a + v

\* adc_sum that adds in binary whatever the D flag is.
adc_sum_binary_only(a, v, c, dmf) == a + v + c

adc_sum(a, v, c, dmf) ==
    IF dmf THEN
        With(BitAnd(a, \hf) + BitAnd(v, \hf) + c, LAMBDA lo :
        With((IF lo > 9 THEN lo + 6 ELSE lo) + BitAnd(a, \hf0) + BitAnd(v, \hf0), LAMBDA hi :
        IF BitAnd(hi, \h1f0) > \h90 THEN hi + \h60 ELSE hi))
    ELSE a + v + c

adc(s, v, cycles) ==
    With(adc_sum(s.cpu.a, v, B(s.cpu.cf), s.cpu.dmf), LAMBDA t :
    With(BitAnd(t, \hff), LAMBDA r :
    tick([s EXCEPT !.cpu = set_zn([@ EXCEPT
              !.cf = (t > \hff),
              !.of = ~(BitAnd(BitXor(s.cpu.a, v), \h80) # 0)
                     /\ (BitAnd(BitXor(s.cpu.a, r), \h80) # 0),
              !.a = r], r)], cycles)))

\* sbc_diff that leaves the borrow out of the binary difference.
sbc_diff_no_borrow(a, v, bw, dmf) ==
    IF dmf THEN
        With((BitAnd(a, \hf) - BitAnd(v, \hf) - bw) % U16, LAMBDA lo :
        With((BitAnd(a, \hf0) - BitAnd(v, \hf0)) % U16, LAMBDA hd :
        With(IF BitAnd(lo, \h10) # 0
             THEN (BitAnd(lo - 6, \hf) + hd - \h10) % U16
             ELSE (BitAnd(lo, \hf) + hd) % U16, LAMBDA d :
        IF BitAnd(d, \h100) # 0 THEN d - \h60 ELSE d)))
    ELSE (a - v) % U16

\* The u16 t of sbc before self.cf is taken from it; bw is 0 with carry.
sbc_diff(a, v, bw, dmf) ==
    IF dmf THEN
        With((BitAnd(a, \hf) - BitAnd(v, \hf) - bw) % U16, LAMBDA lo :
        With((BitAnd(a, \hf0) - BitAnd(v, \hf0)) % U16, LAMBDA hd :
        With(IF BitAnd(lo, \h10) # 0
             THEN (BitAnd(lo - 6, \hf) + hd - \h10) % U16
             ELSE (BitAnd(lo, \hf) + hd) % U16, LAMBDA d :
        IF BitAnd(d, \h100) # 0 THEN d - \h60 ELSE d)))
    ELSE (a - v - bw) % U16

\* sbc that sets V whenever the signs of A and the operand differ.
sbc_v_by_operands(s, v, cycles) ==
    With(sbc_diff(s.cpu.a, v, 1 - B(s.cpu.cf), s.cpu.dmf), LAMBDA t :
    With(BitAnd(t, \hff), LAMBDA r :
    tick([s EXCEPT !.cpu = set_zn([@ EXCEPT
              !.cf = (t < \h100),
              !.of = (BitAnd(BitXor(s.cpu.a, v), \h80) # 0),
              !.a = r], r)], cycles)))

sbc(s, v, cycles) ==
    With(sbc_diff(s.cpu.a, v, 1 - B(s.cpu.cf), s.cpu.dmf), LAMBDA t :
    With(BitAnd(t, \hff), LAMBDA r :
    tick([s EXCEPT !.cpu = set_zn([@ EXCEPT
              !.cf = (t < \h100),
              !.of = (BitAnd(BitXor(s.cpu.a, r), \h80) # 0)
                     /\ (BitAnd(BitXor(s.cpu.a, v), \h80) # 0),
              !.a = r], r)], cycles)))

\* asl lsr rol ror on a value: the flags and the result
shift(c, mn, v) ==
    With(IF mn \in {"asl_a", "asl_mem"} THEN (2 * v) % U8
         ELSE IF mn \in {"lsr_a", "lsr_mem"} THEN v \div 2
         ELSE IF mn \in {"rol_a", "rol_mem"} THEN (2 * v + B(c.cf)) % U8
         ELSE v \div 2 + 128 * B(c.cf), LAMBDA t :
    [c |-> set_zn([c EXCEPT !.cf = IF mn \in {"asl_a", "asl_mem", "rol_a", "rol_mem"}
                                   THEN BitAnd(v, \h80) # 0
                                   ELSE BitAnd(v, 1) # 0], t),
     v |-> t])

\* asl_a lsr_a rol_a ror_a
shift_a(s, mn) ==
    With(shift(s.cpu, mn, s.cpu.a), LAMBDA r : tick([s EXCEPT !.cpu = [r.c EXCEPT !.a = r.v]], 2))

\* asl_mem lsr_mem rol_mem ror_mem
shift_mem(s, mn, addr, cycles) ==
    With(load_byte(s, addr), LAMBDA l :
    With(write_byte(l.s, addr, l.v), LAMBDA s1 :
    With(shift(s1.cpu, mn, l.v), LAMBDA r :
    With(write_byte([s1 EXCEPT !.cpu = r.c], addr, r.v), LAMBDA s2 :
    tick(s2, cycles)))))

\* inc dec
inc_dec(s, mn, addr, cycles) ==
    With(load_byte(s, addr), LAMBDA l :
    With(write_byte(l.s, addr, l.v), LAMBDA s1 :
    With((IF mn = "inc" THEN l.v + 1 ELSE l.v - 1) % U8, LAMBDA v :
    With(write_byte(s1, addr, v), LAMBDA s2 :
    tick([s2 EXCEPT !.cpu = set_zn(@, v)], cycles)))))

\* clc sec cli sei clv cld sed nop
flag_op(s, mn) ==
    tick([s EXCEPT !.cpu =
            IF mn = "clc" THEN [@ EXCEPT !.cf = FALSE]
            ELSE IF mn = "sec" THEN [@ EXCEPT !.cf = TRUE]
            ELSE IF mn = "cli" THEN [@ EXCEPT !.idf = FALSE]
            ELSE IF mn = "sei" THEN [@ EXCEPT !.idf = TRUE]
            ELSE IF mn = "clv" THEN [@ EXCEPT !.of = FALSE]
            ELSE IF mn = "cld" THEN [@ EXCEPT !.dmf = FALSE]
            ELSE IF mn = "sed" THEN [@ EXCEPT !.dmf = TRUE]
            ELSE @], 2)

\* tax tay txa tya tsx txs inx iny dex dey: the registers after it
reg_move(c, mn) ==
    IF mn = "tax" THEN [c EXCEPT !.x = c.a]
    ELSE IF mn = "tay" THEN [c EXCEPT !.y = c.a]
    ELSE IF mn = "txa" THEN [c EXCEPT !.a = c.x]
    ELSE IF mn = "tya" THEN [c EXCEPT !.a = c.y]
    ELSE IF mn = "tsx" THEN [c EXCEPT !.x = c.sp]
    ELSE IF mn = "txs" THEN [c EXCEPT !.sp = c.x]
    ELSE IF mn = "inx" THEN [c EXCEPT !.x = (c.x + 1) % U8]
    ELSE IF mn = "iny" THEN [c EXCEPT !.y = (c.y + 1) % U8]
    ELSE IF mn = "dex" THEN [c EXCEPT !.x = (c.x - 1) % U8]
    ELSE [c EXCEPT !.y = (c.y - 1) % U8]

\* ... and the flags: txs sets none, the others Z and N from the target.
reg_op(s, mn) ==
    With(reg_move(s.cpu, mn), LAMBDA n :
    tick([s EXCEPT !.cpu =
            IF mn = "txs" THEN n
            ELSE set_zn(n, IF mn \in {"txa", "tya"} THEN n.a
                           ELSE IF mn \in {"tax", "tsx", "inx", "dex"} THEN n.x
                           ELSE n.y)], 2))

\* The arms of step's match: opcode, operation, addressing mode, cycles
\* ("imp": the operation fetches its own operand; 0: it ticks by itself).
Arms ==
    {
      <<\h00, "brk", "imp", 0>>, <<\h01, "ora", "indx", 6>>, <<\h05, "ora", "zero", 3>>,
      <<\h06, "asl_mem", "zero", 5>>, <<\h08, "php", "imp", 0>>, <<\h09, "ora", "imm", 2>>,
      <<\h0a, "asl_a", "imp", 0>>, <<\h0d, "ora", "abs", 4>>, <<\h0e, "asl_mem", "abs", 6>>,
      <<\h10, "bpl", "imp", 0>>, <<\h11, "ora", "indy", 5>>, <<\h15, "ora", "zerox", 4>>,
      <<\h16, "asl_mem", "zerox", 6>>, <<\h18, "clc", "imp", 0>>, <<\h19, "ora", "absy", 4>>,
      <<\h1d, "ora", "absx", 4>>, <<\h1e, "asl_mem", "absx", 7>>, <<\h20, "jsr", "imp", 0>>,
      <<\h21, "and", "indx", 6>>, <<\h24, "bit", "zero", 3>>, <<\h25, "and", "zero", 3>>,
      <<\h26, "rol_mem", "zero", 5>>, <<\h28, "plp", "imp", 0>>, <<\h29, "and", "imm", 2>>,
      <<\h2a, "rol_a", "imp", 0>>, <<\h2c, "bit", "abs", 4>>, <<\h2d, "and", "abs", 4>>,
      <<\h2e, "rol_mem", "abs", 6>>, <<\h30, "bmi", "imp", 0>>, <<\h31, "and", "indy", 5>>,
      <<\h35, "and", "zerox", 4>>, <<\h36, "rol_mem", "zerox", 6>>, <<\h38, "sec", "imp", 0>>,
      <<\h39, "and", "absy", 4>>, <<\h3d, "and", "absx", 4>>, <<\h3e, "rol_mem", "absx", 7>>,
      <<\h40, "rti", "imp", 0>>, <<\h41, "eor", "indx", 6>>, <<\h45, "eor", "zero", 3>>,
      <<\h46, "lsr_mem", "zero", 5>>, <<\h48, "pha", "imp", 0>>, <<\h49, "eor", "imm", 2>>,
      <<\h4a, "lsr_a", "imp", 0>>, <<\h4c, "jmp", "imp", 0>>, <<\h4d, "eor", "abs", 4>>,
      <<\h4e, "lsr_mem", "abs", 6>>, <<\h50, "bvc", "imp", 0>>, <<\h51, "eor", "indy", 5>>,
      <<\h55, "eor", "zerox", 4>>, <<\h56, "lsr_mem", "zerox", 6>>, <<\h58, "cli", "imp", 0>>,
      <<\h59, "eor", "absy", 4>>, <<\h5d, "eor", "absx", 4>>, <<\h5e, "lsr_mem", "absx", 7>>,
      <<\h60, "rts", "imp", 0>>, <<\h61, "adc", "indx", 6>>, <<\h65, "adc", "zero", 3>>,
      <<\h66, "ror_mem", "zero", 5>>, <<\h68, "pla", "imp", 0>>, <<\h69, "adc", "imm", 2>>,
      <<\h6a, "ror_a", "imp", 0>>, <<\h6c, "jmp_ind", "imp", 0>>, <<\h6d, "adc", "abs", 4>>,
      <<\h6e, "ror_mem", "abs", 6>>, <<\h70, "bvs", "imp", 0>>, <<\h71, "adc", "indy", 5>>,
      <<\h75, "adc", "zerox", 4>>, <<\h76, "ror_mem", "zerox", 6>>, <<\h78, "sei", "imp", 0>>,
      <<\h79, "adc", "absy", 4>>, <<\h7d, "adc", "absx", 4>>, <<\h7e, "ror_mem", "absx", 7>>,
      <<\h81, "sta", "indx", 6>>, <<\h84, "sty", "zero", 3>>, <<\h85, "sta", "zero", 3>>,
      <<\h86, "stx", "zero", 3>>, <<\h88, "dey", "imp", 0>>, <<\h8a, "txa", "imp", 0>>,
      <<\h8c, "sty", "abs", 4>>, <<\h8d, "sta", "abs", 4>>, <<\h8e, "stx", "abs", 4>>,
      <<\h90, "bcc", "imp", 0>>, <<\h91, "sta", "indy", 6>>, <<\h94, "sty", "zerox", 4>>,
      <<\h95, "sta", "zerox", 4>>, <<\h96, "stx", "zeroy", 4>>, <<\h98, "tya", "imp", 0>>,
      <<\h99, "sta", "absy", 5>>, <<\h9a, "txs", "imp", 0>>, <<\h9d, "sta", "absx", 5>>,
      <<\ha0, "ldy", "imm", 2>>, <<\ha1, "lda", "indx", 6>>, <<\ha2, "ldx", "imm", 2>>,
      <<\ha4, "ldy", "zero", 3>>, <<\ha5, "lda", "zero", 3>>, <<\ha6, "ldx", "zero", 3>>,
      <<\ha8, "tay", "imp", 0>>, <<\ha9, "lda", "imm", 2>>, <<\haa, "tax", "imp", 0>>,
      <<\hac, "ldy", "abs", 4>>, <<\had, "lda", "abs", 4>>, <<\hae, "ldx", "abs", 4>>,
      <<\hb0, "bcs", "imp", 0>>, <<\hb1, "lda", "indy", 5>>, <<\hb4, "ldy", "zerox", 3>>,
      <<\hb5, "lda", "zerox", 3>>, <<\hb6, "ldx", "zeroy", 3>>, <<\hb8, "clv", "imp", 0>>,
      <<\hb9, "lda", "absy", 4>>, <<\hba, "tsx", "imp", 0>>, <<\hbc, "ldy", "absx", 4>>,
      <<\hbd, "lda", "absx", 4>>, <<\hbe, "ldx", "absy", 4>>, <<\hc0, "cpy", "imm", 2>>,
      <<\hc1, "cmp", "indx", 6>>, <<\hc4, "cpy", "zero", 3>>, <<\hc5, "cmp", "zero", 3>>,
      <<\hc6, "dec", "zero", 5>>, <<\hc8, "iny", "imp", 0>>, <<\hc9, "cmp", "imm", 2>>,
      <<\hca, "dex", "imp", 0>>, <<\hcc, "cpy", "abs", 4>>, <<\hcd, "cmp", "abs", 4>>,
      <<\hce, "dec", "abs", 6>>, <<\hd0, "bne", "imp", 0>>, <<\hd1, "cmp", "indy", 5>>,
      <<\hd5, "cmp", "zerox", 4>>, <<\hd6, "dec", "zerox", 6>>, <<\hd8, "cld", "imp", 0>>,
      <<\hd9, "cmp", "absy", 4>>, <<\hdd, "cmp", "absx", 4>>, <<\hde, "dec", "absx", 7>>,
      <<\he0, "cpx", "imm", 2>>, <<\he1, "sbc", "indx", 6>>, <<\he4, "cpx", "zero", 3>>,
      <<\he5, "sbc", "zero", 3>>, <<\he6, "inc", "zero", 5>>, <<\he8, "inx", "imp", 0>>,
      <<\he9, "sbc", "imm", 2>>, <<\hea, "nop", "imp", 0>>, <<\hec, "cpx", "abs", 4>>,
      <<\hed, "sbc", "abs", 4>>, <<\hee, "inc", "abs", 6>>, <<\hf0, "beq", "imp", 0>>,
      <<\hf1, "sbc", "indy", 5>>, <<\hf5, "sbc", "zerox", 4>>, <<\hf6, "inc", "zerox", 6>>,
      <<\hf8, "sed", "imp", 0>>, <<\hf9, "sbc", "absy", 4>>, <<\hfd, "sbc", "absx", 4>>,
      <<\hfe, "inc", "absx", 7>>
    }

Opcodes == {arm[1] : arm \in Arms}

Decode == [op \in Opcodes |-> CHOOSE arm \in Arms : arm[1] = op]

\* The arm of step's match for a known opcode, on the machine t that
\* fetch_op left.
execute(t, mn, mode, cycles) ==
    IF mn = "brk" THEN brk(t)
    ELSE IF mn = "php" THEN php(t)
    ELSE IF mn = "plp" THEN plp(t)
    ELSE IF mn = "pha" THEN pha(t)
    ELSE IF mn = "pla" THEN pla(t)
    ELSE IF mn = "rti" THEN rti(t)
    ELSE IF mn = "rts" THEN rts(t)
    ELSE IF mn = "jsr" THEN jsr(t)
    ELSE IF mn = "jmp" THEN jmp(t)
    ELSE IF mn = "jmp_ind" THEN jmp_ind(t)
    ELSE IF mn = "bpl" THEN bpl(t)
    ELSE IF mn \in {"bmi", "bvc", "bvs", "bcc", "bcs", "bne", "beq"} THEN
        branch(t, IF mn = "bmi" THEN t.cpu.nf
                  ELSE IF mn = "bvc" THEN ~t.cpu.of
                  ELSE IF mn = "bvs" THEN t.cpu.of
                  ELSE IF mn = "bcc" THEN ~t.cpu.cf
                  ELSE IF mn = "bcs" THEN t.cpu.cf
                  ELSE IF mn = "bne" THEN ~t.cpu.zf
                  ELSE t.cpu.zf)
    ELSE IF mn \in {"ora", "and", "eor", "lda", "ldx", "ldy", "cmp", "cpx", "cpy",
                    "adc", "sbc"} THEN
        With(operand(t, mode), LAMBDA o :
        IF mn \in {"ora", "and", "eor"} THEN logic(o.s, mn, o.v, cycles)
        ELSE IF mn \in {"lda", "ldx", "ldy"} THEN load(o.s, mn, o.v, cycles)
        ELSE IF mn \in {"cmp", "cpx", "cpy"} THEN compare(o.s, mn, o.v, cycles)
        ELSE IF mn = "adc" THEN adc(o.s, o.v, cycles)
        ELSE sbc(o.s, o.v, cycles))
    ELSE IF mn \in {"sta", "stx", "sty", "bit", "inc", "dec",
                    "asl_mem", "lsr_mem", "rol_mem", "ror_mem"} THEN
        With(addr_mode(t, mode), LAMBDA a :
        IF mn \in {"sta", "stx", "sty"} THEN store(a.s, mn, a.v, cycles)
        ELSE IF mn = "bit" THEN bit(a.s, a.v, cycles)
        ELSE IF mn \in {"inc", "dec"} THEN inc_dec(a.s, mn, a.v, cycles)
        ELSE shift_mem(a.s, mn, a.v, cycles))
    ELSE IF mn \in {"asl_a", "lsr_a", "rol_a", "ror_a"} THEN shift_a(t, mn)
    ELSE IF mn \in {"clc", "sec", "cli", "sei", "clv", "cld", "sed", "nop"} THEN
        flag_op(t, mn)
    ELSE reg_op(t, mn)

\* Cpu::step: the machine after the instruction and the continuation flag.
\* step that reports an opcode it does not know and carries on.
step_unknown_continues(s) ==
    With(fetch_op(s), LAMBDA f :
    IF f.v \notin Opcodes THEN [s |-> f.s, ret |-> TRUE]
    ELSE [s |-> execute(f.s, Decode[f.v][2], Decode[f.v][3], Decode[f.v][4]),
          ret |-> TRUE])

step(s) ==
    With(fetch_op(s), LAMBDA f :
    IF f.v \notin Opcodes THEN [s |-> f.s, ret |-> FALSE]
    ELSE [s |-> execute(f.s, Decode[f.v][2], Decode[f.v][3], Decode[f.v][4]),
          ret |-> TRUE])

-----------------------------------------------------------------------------
(* The CIA chips (cia1.rs, cia2.rs).  The fields of timer A and timer B    *)
(* are kept per timer: timer_counter["a"] is timer_a_counter.              *)

Timers == {"a", "b"}

Processor == 0
Restart   == 0
OneTime   == 1

CiaNew ==
    [timer_latch         |-> [t \in Timers |-> 0],
     timer_counter       |-> [t \in Timers |-> 0],
     timer_enabled       |-> [t \in Timers |-> FALSE],
     timer_irq_enabled   |-> [t \in Timers |-> FALSE],
     timer_irq_triggered |-> [t \in Timers |-> FALSE],
     timer_run_mode      |-> [t \in Timers |-> Restart],
     timer_input_mode    |-> [t \in Timers |-> Processor],
     prev_cpu_cycles     |-> 0,
     pra |-> 255,
     prb |-> 255]

\* reset_timer_a, reset_timer_b.  Cia2 matches the run mode against the
\* unbound name kModeRestart, a pattern that every mode matches.
reset_timer(s, chip, t) ==
    IF chip = "cia2" \/ s[chip].timer_run_mode[t] = Restart
    THEN [s EXCEPT ![chip].timer_counter[t] = AsI16(s[chip].timer_latch[t])]
    ELSE [s EXCEPT ![chip].timer_enabled[t] = FALSE]

\* cia_timer that raises irq() on either chip.
cia_timer_irq_line(s, chip, t) ==
    IF ~s[chip].timer_enabled[t] THEN s
    ELSE IF chip = "cia1" /\ s[chip].timer_input_mode[t] # Processor THEN s
    ELSE
        With(CheckedSub32(s, s.cpu.cycles, s[chip].prev_cpu_cycles), LAMBDA d :
        With(s[chip].timer_counter[t] - AsI16(d.v), LAMBDA diff :
        With(IF overflow_checks /\ (diff < -32768 \/ diff > 32767)
             THEN Panic(d.s) ELSE d.s, LAMBDA s1 :
        With([s1 EXCEPT ![chip].timer_counter[t] = AsI16(diff % U16)], LAMBDA s2 :
        IF s2[chip].timer_counter[t] > 0 THEN s2
        ELSE IF ~s2[chip].timer_irq_enabled[t] THEN reset_timer(s2, chip, t)
        ELSE With([s2 EXCEPT ![chip].timer_irq_triggered[t] = TRUE], LAMBDA s3 :
             reset_timer(irq(s3), chip, t))))))

\* One timer's block of Cia1::emulate or Cia2::step.  Cia1 raises irq(),
\* Cia2 nmi(); Cia2's match on the input mode has a first arm that binds.
cia_timer(s, chip, t) ==
    IF ~s[chip].timer_enabled[t] THEN s
    ELSE IF chip = "cia1" /\ s[chip].timer_input_mode[t] # Processor THEN s
    ELSE
        With(CheckedSub32(s, s.cpu.cycles, s[chip].prev_cpu_cycles), LAMBDA d :
        With(s[chip].timer_counter[t] - AsI16(d.v), LAMBDA diff :
        With(IF overflow_checks /\ (diff < -32768 \/ diff > 32767)
             THEN Panic(d.s) ELSE d.s, LAMBDA s1 :
        With([s1 EXCEPT ![chip].timer_counter[t] = AsI16(diff % U16)], LAMBDA s2 :
        IF s2[chip].timer_counter[t] > 0 THEN s2
        ELSE IF ~s2[chip].timer_irq_enabled[t] THEN reset_timer(s2, chip, t)
        ELSE With([s2 EXCEPT ![chip].timer_irq_triggered[t] = TRUE], LAMBDA s3 :
             With(IF chip = "cia1" THEN irq(s3) ELSE nmi(s3), LAMBDA s4 :
             reset_timer(s4, chip, t)))))))

\* Cia1::emulate (main.rs calls it step) and Cia2::step; both return true.
cia_step(s, chip) ==
    With(cia_timer(s, chip, "a"), LAMBDA s1 :
    With(cia_timer(s1, chip, "b"), LAMBDA s2 :
    [s2 EXCEPT ![chip].prev_cpu_cycles = s2.cpu.cycles]))

\* Cia1::write_register.  Registers $4-$7 set a byte of a latch, $D the
\* interrupt mask, $E and $F the enable flag, the input mode (bit 5) and the
\* load of the counter (bit 4); no register sets a run mode.
cia1_write_register(s, r, v) ==
    LET t == IF r \in {\h4, \h5, \he} THEN "a" ELSE "b" IN
    IF r = \h0 THEN [s EXCEPT !.cia1.pra = v]
    ELSE IF r \in {\h4, \h6} THEN
        [s EXCEPT !.cia1.timer_latch[t] = BitOr(BitAnd(@, \hff00), v)]
    ELSE IF r \in {\h5, \h7} THEN
        [s EXCEPT !.cia1.timer_latch[t] = BitOr(BitAnd(@, \h00ff), v * 256)]
    ELSE IF r = \hd THEN
        [s EXCEPT !.cia1.timer_irq_enabled =
            [a |-> is_bit_set(v, 7) /\ is_bit_set(v, 0),
             b |-> is_bit_set(v, 7) /\ is_bit_set(v, 1)]]
    ELSE IF r \in {\he, \hf} THEN
        [s EXCEPT !.cia1.timer_enabled[t] = is_bit_set(v, 0),
                  !.cia1.timer_input_mode[t] = BitAnd(v, 32) \div 32,
                  !.cia1.timer_counter[t] =
                      IF is_bit_set(v, 4) THEN AsI16(s.cia1.timer_latch[t]) ELSE @]
    ELSE s

\* Cia2::write_register.  $1 sets PRB as well; $D changes the interrupt flag
\* of the timers that v selects; $F takes Timer B's input mode from bit 5 as
\* it stands and from bit 6 shifted down.
cia2_write_register(s, r, v) ==
    LET t == IF r \in {\h4, \h5, \he} THEN "a" ELSE "b" IN
    IF r = \h0 THEN [s EXCEPT !.cia2.pra = v]
    ELSE IF r = \h1 THEN [s EXCEPT !.cia2.prb = v]
    ELSE IF r \in {\h4, \h6} THEN
        [s EXCEPT !.cia2.timer_latch[t] = BitOr(BitAnd(@, \hff00), v)]
    ELSE IF r \in {\h5, \h7} THEN
        [s EXCEPT !.cia2.timer_latch[t] = BitOr(BitAnd(@, \h00ff), v * 256)]
    ELSE IF r = \hd THEN
        [s EXCEPT !.cia2.timer_irq_enabled =
            [a |-> IF is_bit_set(v, 0) THEN is_bit_set(v, 7) ELSE @["a"],
             b |-> IF is_bit_set(v, 1) THEN is_bit_set(v, 7) ELSE @["b"]]]
    ELSE IF r \in {\he, \hf} THEN
        [s EXCEPT !.cia2.timer_enabled[t] = is_bit_set(v, 0),
                  !.cia2.timer_input_mode[t] =
                      IF r = \he THEN BitAnd(v, \h20) \div 32
                      ELSE BitOr(BitAnd(v, \h20), BitAnd(v, \h40) \div 32),
                  !.cia2.timer_counter[t] =
                      IF is_bit_set(v, 4) THEN AsI16(s.cia2.timer_latch[t]) ELSE @]
    ELSE s

\* The status byte that both read_register functions build for $D.  They take
\* &self: the read changes no field.
icr_status(c) ==
    IF c.timer_irq_triggered["a"] \/ c.timer_irq_triggered["b"]
    THEN \h80 + B(c.timer_irq_triggered["a"]) + 2 * B(c.timer_irq_triggered["b"])
    ELSE 0

\* Cia1::read_register: the byte it returns.  $1 is the keyboard row of the
\* column that the highest set bit of !pra names.
cia1_read_register(s, r) ==
    LET c == s.cia1
        ctr(t) == c.timer_counter[t] % U16
        col == CHOOSE k \in 0..7 : 2 ^ k <= 255 - c.pra /\ 255 - c.pra < 2 ^ (k + 1)
    IN  IF r = \h0 THEN c.pra
        ELSE IF r = \h1 THEN
            IF c.pra = \hff THEN \hff
            ELSE IF c.pra # 0 THEN s.io.keyboard_matrix[col]
            ELSE 0
        ELSE IF r = \h4 THEN ctr("a") % 256
        ELSE IF r = \h5 THEN ctr("a") \div 256
        ELSE IF r = \h6 THEN ctr("b") % 256
        ELSE IF r = \h7 THEN ctr("b") \div 256
        ELSE IF r = \hd THEN icr_status(c)
        ELSE 0

\* Cia2::read_register: the byte it returns.
cia2_read_register(s, r) ==
    LET c == s.cia2
        ctr(t) == c.timer_counter[t] % U16
    IN  IF r = \h0 THEN c.pra
        ELSE IF r = \h1 THEN c.prb
        ELSE IF r = \h4 THEN ctr("a") % 256
        ELSE IF r = \h5 THEN ctr("a") \div 256
        ELSE IF r = \h6 THEN ctr("b") % 256
        ELSE IF r = \h7 THEN ctr("b") \div 256
        ELSE IF r = \hd THEN icr_status(c)
        ELSE 0

-----------------------------------------------------------------------------
(* The host adapter (io.rs).  events is what the SDL event pump holds.     *)

WAIT_DURATION == 18000

\* Some entries of the keymap that IO::new fills; "Escape" has no entry, and
\* F1 and F3 have the same one.
keymap ==
    [k \in {"Y", "Z", "Return", "Space", "F1", "F3"} |->
        IF k = "Y" THEN <<3, 1>> ELSE IF k = "Z" THEN <<1, 4>>
        ELSE IF k = "Return" THEN <<0, 1>> ELSE IF k = "Space" THEN <<7, 4>>
        ELSE <<0, 4>>]

IoNew ==
    [keyboard_matrix |-> [i \in 0..7 |-> 255],
     key_event_queue |-> <<>>,
     next_key_event_at |-> 0,
     retval |-> TRUE,
     events |-> <<>>]

handle_keydown(i, key) ==
    IF key \in DOMAIN keymap
    THEN [i EXCEPT !.keyboard_matrix[keymap[key][1]] = BitAnd(@, 255 - 2 ^ keymap[key][2])]
    ELSE i

handle_keyup(i, key) ==
    IF key \in DOMAIN keymap
    THEN [i EXCEPT !.keyboard_matrix[keymap[key][1]] = BitOr(@, 2 ^ keymap[key][2])]
    ELSE i

\* The for loop of process_events over the polled events.
RECURSIVE handle_events(_, _)
handle_events(i, evs) ==
    IF evs = <<>> THEN i
    ELSE LET e == Head(evs)
             n == IF e.type = "KeyDown" THEN handle_keydown(i, e.key)
                  ELSE IF e.type = "KeyUp" THEN handle_keyup(i, e.key)
                  ELSE IF e.type = "Quit" THEN [i EXCEPT !.retval = FALSE]
                  ELSE i
         IN handle_events(n, Tail(evs))

process_events(s) ==
    With([handle_events(s.io, s.io.events) EXCEPT !.events = <<>>], LAMBDA i :
    IF i.key_event_queue # <<>> /\ Lt32(i.next_key_event_at, s.cpu.cycles) THEN
        With(Head(i.key_event_queue), LAMBDA k :
        With(IF k[1] = "Press" THEN handle_keydown(i, k[2]) ELSE handle_keyup(i, k[2]),
             LAMBDA h :
        With(CheckedAdd32(s, s.cpu.cycles, WAIT_DURATION), LAMBDA w :
        [w.s EXCEPT !.io = [h EXCEPT !.key_event_queue = Tail(@),
                                     !.next_key_event_at = w.v]])))
    ELSE [s EXCEPT !.io = i])

\* screen_refresh that does not poll the host's events.
screen_refresh_no_poll(s) == s

\* Presenting the frame and vsync touch no state of the model.
screen_refresh(s) == process_events(s)

-----------------------------------------------------------------------------
(* The VIC-II (vic.rs).  The pixels it draws into IO's frame are not part  *)
(* of the state.                                                           *)

SCREEN_LINES       == 312
FIRST_VISIBLE_LINE == 14
LAST_VISIBLE_LINE  == 298
LINE_CYCLES        == 63
BAD_LINE_CYCLES    == 23

VicNew ==
    [mx |-> [n \in 0..7 |-> 0], my |-> [n \in 0..7 |-> 0], msbx |-> 0,
     sprite_enabled |-> 0, sprite_priority |-> 0, sprite_multicolor |-> 0,
     sprite_double_width |-> 0, sprite_double_height |-> 0,
     sprite_shared_colors |-> [n \in 0..1 |-> 0],
     sprite_colors |-> [n \in 0..7 |-> 0],
     border_color |-> 0, bgcolor |-> [n \in 0..3 |-> 0],
     cr1 |-> 0, cr2 |-> 0,
     next_raster_at |-> LINE_CYCLES, frame_c |-> 0, raster_c |-> 0, raster_irq |-> 0,
     irq_status |-> 0, irq_enabled |-> 0,
     screen_mem |-> \h0400, char_mem |-> \hd000, bitmap_mem |-> \h0000,
     mem_pointers |-> 1,
     graphic_mode |-> "CharMode"]

read_register(v, r) ==
    IF r \in {0, 2, 4, 6, 8, 12, 14} THEN v.mx[r \div 2]
    ELSE IF r \in {1, 3, 5, 7, 9, 11, 13, 15} THEN v.my[r \div 2]
    ELSE IF r = \h10 THEN v.msbx
    ELSE IF r = \h11 THEN v.cr1
    ELSE IF r = \h12 THEN v.raster_c
    ELSE IF r = \h15 THEN v.sprite_enabled
    ELSE IF r = \h16 THEN v.cr2
    ELSE IF r = \h17 THEN v.sprite_double_height
    ELSE IF r = \h18 THEN v.mem_pointers
    ELSE IF r = \h19 THEN
        LET st == BitAnd(\hf, v.irq_status)
        IN BitOr(IF st # 0 THEN BitOr(st, \h80) ELSE st, \h70)
    ELSE IF r = \h1a THEN BitOr(\hf0, v.irq_enabled)
    ELSE IF r = \h1b THEN v.sprite_priority
    ELSE IF r = \h1c THEN v.sprite_multicolor
    ELSE IF r = \h1d THEN v.sprite_double_width
    ELSE IF r = \h20 THEN v.border_color
    ELSE IF r \in \h21..\h24 THEN v.bgcolor[r - \h21]
    ELSE IF r \in \h25..\h26 THEN v.sprite_shared_colors[r - \h25]
    ELSE IF r \in \h27..\h2e THEN v.sprite_colors[r - \h27]
    ELSE \hff

\* The mode that CR1 bit 6 (ECM), CR1 bit 5 (BMM) and CR2 bit 4 (MCM) select.
set_graphic_mode(v) ==
    LET ecm == is_bit_set(v.cr1, 6)
        bmm == is_bit_set(v.cr1, 5)
        mcm == is_bit_set(v.cr2, 4)
    IN  [v EXCEPT !.graphic_mode =
            IF ~ecm /\ ~bmm /\ ~mcm THEN "CharMode"
            ELSE IF ~ecm /\ ~bmm /\ mcm THEN "MCCharMode"
            ELSE IF ~ecm /\ bmm /\ ~mcm THEN "BitmapMode"
            ELSE IF ~ecm /\ bmm /\ mcm THEN "MCBitmapMode"
            ELSE IF ecm /\ ~bmm /\ ~mcm THEN "ExitBgMode"
            ELSE "IllegalMode"]

\* Vic::write_register.  $18 computes screen_mem from (val & 0xf0) << 6 on a
\* u8, which keeps the low 8 bits of the shifted value, and the other two
\* addresses on a u32.
vic_write_register(v, r, val) ==
    IF r \in {0, 2, 4, 6, 8, 12, 14} THEN [v EXCEPT !.mx[r \div 2] = val]
    ELSE IF r \in {1, 3, 5, 7, 9, 11, 13, 15} THEN [v EXCEPT !.my[r \div 2] = val]
    ELSE IF r = \h10 THEN [v EXCEPT !.msbx = val]
    ELSE IF r = \h11 THEN
        set_graphic_mode([v EXCEPT
            !.cr1 = BitAnd(val, \h7f),
            !.raster_irq = BitOr(BitAnd(@, \hff), BitAnd(val, \h80) * 2)])
    ELSE IF r = \h12 THEN [v EXCEPT !.raster_irq = BitOr(val, BitAnd(@, \h100))]
    ELSE IF r = \h15 THEN [v EXCEPT !.sprite_enabled = val]
    ELSE IF r = \h16 THEN set_graphic_mode([v EXCEPT !.cr2 = val])
    ELSE IF r = \h17 THEN [v EXCEPT !.sprite_double_height = val]
    ELSE IF r = \h18 THEN
        [v EXCEPT !.char_mem = BitAnd(val, \he) * 1024,
                  !.screen_mem = (BitAnd(val, \hf0) * 64) % U8,
                  !.bitmap_mem = BitAnd(val, \h8) * 1024,
                  !.mem_pointers = BitOr(val, 1)]
    ELSE IF r = \h19 THEN
        [v EXCEPT !.irq_status = BitAnd(@, 255 - BitAnd(val, \hf))]
    ELSE IF r = \h1a THEN [v EXCEPT !.irq_enabled = val]
    ELSE IF r = \h1b THEN [v EXCEPT !.sprite_priority = val]
    ELSE IF r = \h1c THEN [v EXCEPT !.sprite_multicolor = val]
    ELSE IF r = \h1d THEN [v EXCEPT !.sprite_double_width = val]
    ELSE IF r = \h20 THEN [v EXCEPT !.border_color = val]
    ELSE IF r \in \h21..\h24 THEN [v EXCEPT !.bgcolor[r - \h21] = val]
    ELSE IF r \in \h25..\h26 THEN [v EXCEPT !.sprite_shared_colors[r - \h25] = val]
    ELSE IF r \in \h27..\h2e THEN [v EXCEPT !.sprite_colors[r - \h27] = val]
    ELSE v

\* raster_counter_set that stores bit 8 and drops the rest of CR1.
raster_counter_set_cr1_lost(v, n) ==
    [v EXCEPT !.raster_c = BitAnd(n, \hff),
              !.cr1 = BitAnd(n \div 2, \h80)]

raster_counter_set(v, n) ==
    [v EXCEPT !.raster_c = BitAnd(n, \hff),
              !.cr1 = BitOr(BitAnd(@, \h7f), BitAnd(n \div 2, \h80))]

raster_counter(v) == v.raster_c + 2 * BitAnd(v.cr1, \h80)

is_bad_line(v) ==
    LET rstr == raster_counter(v)
    IN rstr >= \h30 /\ rstr <= \hf7 /\ BitAnd(rstr, 7) = BitAnd(BitAnd(v.cr1, 7), 7)

\* raster_irq_enabled that does not look at the mask.
raster_irq_enabled_unmasked(v) == TRUE

raster_irq_enabled(v) == BitAnd(v.irq_enabled, 1) # 0

\* The end of Vic::step once the line is drawn: the next line's cycle, the
\* raster counter, and the frame's end after line SCREEN_LINES.
next_raster(s, rstr) ==
    With(CheckedAdd32(s, s.vic.next_raster_at,
                      IF is_bad_line(s.vic) THEN BAD_LINE_CYCLES ELSE LINE_CYCLES),
         LAMBDA nra :
    With([nra.s EXCEPT !.vic =
            raster_counter_set([@ EXCEPT !.next_raster_at = nra.v], rstr + 1)], LAMBDA s1 :
    IF rstr < SCREEN_LINES THEN s1
    ELSE With(screen_refresh(s1), LAMBDA s2 :
         With(CheckedAdd32(s2, s2.vic.frame_c, 1), LAMBDA fc :
         [fc.s EXCEPT !.vic = raster_counter_set([@ EXCEPT !.frame_c = fc.v], 0)]))))

\* The sprite engine.  A call of IO::screen_update_pixel(x, y, color) is the
\* pair <<x, y>>; an operator that draws is the set of its calls.
VISIBLE_SCREEN_WIDTH  == 403
VISIBLE_SCREEN_HEIGHT == 284
SPRITE_PTRS_OFFSET    == \h3f8
SPRITE_HEIGHT         == 21
SPRITE_SIZE           == 64
SPRITES_FIRST_LINE    == 6
SPRITES_FIRST_COL     == 18

\* Memory::vic_read_byte: a read of RAM whatever the banks are.
vic_read_byte(s, addr) == Peek(s.mem_ram, addr)

get_sprite_ptr(s, n) ==
    SPRITE_SIZE * vic_read_byte(s, s.vic.screen_mem + SPRITE_PTRS_OFFSET + n)

sprite_x(v, n) == v.mx[n] + (IF is_bit_set(v.msbx, n) THEN 256 ELSE 0)

draw_mcsprite(s, x, y, sprite, row) ==
    LET addr == get_sprite_ptr(s, sprite)
        cs(i, j) == (vic_read_byte(s, (addr + row * 3 + i) % U16) \div 4 ^ j) % 4
    IN  UNION {{<<x + t[1] * 8 + 8 - t[2] * 2, y>>, <<x + t[1] * 8 + 8 - t[2] * 2 + 1, y>>} :
                  t \in {u \in (0..2) \X (0..3) : cs(u[1], u[2]) # 0}}

draw_sprite(s, x, y, sprite, row) ==
    LET swid == IF is_bit_set(s.vic.sprite_double_width, sprite) THEN 2 ELSE 1
        addr == get_sprite_ptr(s, sprite)
        data(i) == vic_read_byte(s, (addr + row * 3 + i) % U16)
    IN  {<<x + t[1] * 8 * swid + t[2] * 8 * swid + (8 * swid - t[3] * swid), y>> :
            t \in {u \in (0..(swid - 1)) \X (0..2) \X (0..7) : is_bit_set(data(u[2]), u[3])}}

draw_raster_sprites(s) ==
    IF s.vic.sprite_enabled = 0 THEN {}
    ELSE
    LET rstr == raster_counter(s.vic)
        y    == rstr - FIRST_VISIBLE_LINE
        sp_y == rstr - SPRITES_FIRST_LINE
        dh(n) == is_bit_set(s.vic.sprite_double_height, n)
        height(n) == IF dh(n) THEN SPRITE_HEIGHT * 2 ELSE SPRITE_HEIGHT
        row(n) == IF dh(n) THEN (sp_y - s.vic.my[n]) \div 2 ELSE sp_y - s.vic.my[n]
        x(n) == SPRITES_FIRST_COL + sprite_x(s.vic, n)
    IN  UNION {IF is_bit_set(s.vic.sprite_multicolor, n)
               THEN draw_mcsprite(s, x(n), y, n, row(n))
               ELSE draw_sprite(s, x(n), y, n, row(n)) :
                  n \in {k \in 0..7 : /\ is_bit_set(s.vic.sprite_enabled, k)
                                      /\ sp_y >= s.vic.my[k]
                                      /\ sp_y < s.vic.my[k] + height(k)}}

\* The pixels that Vic::step draws for the sprites: on a visible line that is
\* due, in a mode that it draws.
vic_step_sprites(s) ==
    With(IF BitAnd(read_register(s.vic, \h19), \h80) # 0 THEN irq(s) ELSE s, LAMBDA s1 :
    IF Lt32(s1.cpu.cycles, s1.vic.next_raster_at) THEN {}
    ELSE
    With(raster_counter(s1.vic), LAMBDA rstr :
    With(IF raster_irq_enabled(s1.vic) /\ rstr = s1.vic.raster_irq
         THEN irq([s1 EXCEPT !.vic.irq_status = BitOr(@, 1)])
         ELSE s1, LAMBDA s2 :
    IF /\ rstr >= FIRST_VISIBLE_LINE
       /\ rstr < LAST_VISIBLE_LINE
       /\ s2.vic.graphic_mode \notin {"ExitBgMode", "IllegalMode"}
    THEN draw_raster_sprites(s2)
    ELSE {})))

\* vic_step that does not raise an unacknowledged IRQ again.
vic_step_no_reraise(s) ==
    IF Lt32(s.cpu.cycles, s.vic.next_raster_at) THEN [s |-> s, ret |-> TRUE]
    ELSE
    With(raster_counter(s.vic), LAMBDA rstr :
    With(IF raster_irq_enabled(s.vic) /\ rstr = s.vic.raster_irq
         THEN irq([s EXCEPT !.vic.irq_status = BitOr(@, 1)])
         ELSE s, LAMBDA s2 :
    IF /\ rstr >= FIRST_VISIBLE_LINE
       /\ rstr < LAST_VISIBLE_LINE
       /\ s2.vic.graphic_mode \in {"ExitBgMode", "IllegalMode"}
    THEN [s |-> s2, ret |-> FALSE]
    ELSE [s |-> next_raster(s2, rstr), ret |-> TRUE]))

\* Vic::step: the machine after the step and the continuation flag.
vic_step(s) ==
    With(IF BitAnd(read_register(s.vic, \h19), \h80) # 0 THEN irq(s) ELSE s, LAMBDA s1 :
    IF Lt32(s1.cpu.cycles, s1.vic.next_raster_at) THEN [s |-> s1, ret |-> TRUE]
    ELSE
    With(raster_counter(s1.vic), LAMBDA rstr :
    With(IF raster_irq_enabled(s1.vic) /\ rstr = s1.vic.raster_irq
         THEN irq([s1 EXCEPT !.vic.irq_status = BitOr(@, 1)])
         ELSE s1, LAMBDA s2 :
    IF /\ rstr >= FIRST_VISIBLE_LINE
       /\ rstr < LAST_VISIBLE_LINE
       /\ s2.vic.graphic_mode \in {"ExitBgMode", "IllegalMode"}
    THEN [s |-> s2, ret |-> FALSE]
    ELSE [s |-> next_raster(s2, rstr), ret |-> TRUE])))

-----------------------------------------------------------------------------
(* The state after main has built the components (main.rs), and the ROM    *)
(* images it may have loaded.                                              *)

CpuNew ==
    [pc |-> 0, sp |-> \hff, a |-> 0, x |-> 0, y |-> 0, cycles |-> 0,
     cf |-> FALSE, zf |-> FALSE, idf |-> TRUE, dmf |-> FALSE, bcf |-> FALSE,
     of |-> FALSE, nf |-> FALSE]

\* A memory image: the cells that are not 0, from <<address, byte>> pairs.
Image(cells) ==
    [a \in {c[1] : c \in cells} |-> (CHOOSE c \in cells : c[1] = a)[2]]

\* The components as main builds them.  Memory::new zeroes both arrays and
\* calls setup_memory_banks(LORAM | HIRAM | CHAREN).
Constructed ==
    setup_memory_banks([cpu |-> CpuNew, mem_ram |-> Image({}),
                        banks |-> [i \in 0..6 |-> 0], panicked |-> FALSE,
                        cia1 |-> CiaNew, cia2 |-> CiaNew, vic |-> VicNew, io |-> IoNew],
                       LORAM + HIRAM + CHAREN)

\* The variables take the fields of a machine.
Store(s) ==
    /\ cpu' = s.cpu
    /\ mem_ram' = s.mem_ram
    /\ banks' = s.banks
    /\ panicked' = s.panicked
    /\ cia1' = s.cia1
    /\ cia2' = s.cia2
    /\ vic' = s.vic
    /\ io' = s.io

Built(s, rom) ==
    /\ cpu = s.cpu
    /\ mem_ram = s.mem_ram
    /\ banks = s.banks
    /\ panicked = s.panicked
    /\ cia1 = s.cia1
    /\ cia2 = s.cia2
    /\ vic = s.vic
    /\ io = s.io
    /\ mem_rom = rom
    /\ overflow_checks \in BOOLEAN

-----------------------------------------------------------------------------
(* Specification Spec: run_c64 (main.rs) stepping the five components.     *)

MaxCycles  == 19000    \* the CPU stops being stepped past this many cycles
MaxPending == 1        \* events the host has queued and IO has not polled

\* ROM files: the IRQ vector points at $E000, where the code is
\*   INC $0200,X ; JMP $E000      (runs for ever)
\*   an opcode step does not know
\*   STA $D020                    (a write to a VIC register)
RomSpin ==
    Image({<<\hffff, \he0>>, <<\he000, \hfe>>, <<\he002, \h02>>,
           <<\he003, \h4c>>, <<\he005, \he0>>})
RomHalt == Image({<<\hffff, \he0>>, <<\he000, \h02>>})
RomIo ==
    Image({<<\hffff, \he0>>, <<\he000, \h8d>>, <<\he001, \h20>>, <<\he002, \hd0>>})

RomImages == {RomSpin, RomHalt, RomIo}

HostEvents ==
    {[type |-> "Quit"], [type |-> "KeyDown", key |-> "Y"], [type |-> "KeyUp", key |-> "Y"]}

\* run_c64 with a CPU step whose result is not looked at.
run_c64_cpu_unchecked(pos, ret) ==
    IF pos = "cpu" THEN "vic"
    ELSE IF ~ret THEN "exit"
    ELSE IF pos = "cia1" THEN "cia2"
    ELSE IF pos = "cia2" THEN "cpu"
    ELSE IF pos = "vic" THEN "io"
    ELSE "cia1"

\* The loop body of run_c64: where it goes after a step that returned ret.
run_c64(pos, ret) ==
    IF ~ret THEN "exit"
    ELSE IF pos = "cia1" THEN "cia2"
    ELSE IF pos = "cia2" THEN "cpu"
    ELSE IF pos = "cpu" THEN "vic"
    ELSE IF pos = "vic" THEN "io"
    ELSE "cia1"

Init ==
    /\ \E rom \in RomImages : Built(Constructed, rom)
    /\ loop = "cia1"
    /\ obs = [op |-> "new", ret |-> TRUE]

\* run_c64 calls the step at pos; r is the machine after it and its result.
Tick(pos, r) ==
    /\ loop = pos
    /\ ~panicked
    /\ Store(r.s)
    /\ loop' = IF r.s.panicked THEN loop ELSE run_c64(pos, r.ret)
    /\ obs' = [op |-> pos, ret |-> r.ret]
    /\ UNCHANGED <<mem_rom, overflow_checks>>

Cia1Tick == Tick("cia1", [s |-> cia_step(Mach, "cia1"), ret |-> TRUE])

Cia2Tick == Tick("cia2", [s |-> cia_step(Mach, "cia2"), ret |-> TRUE])

CpuTick == Lt32(cpu.cycles, MaxCycles) /\ Tick("cpu", step(Mach))

VicTick == Tick("vic", vic_step(Mach))

\* IO::step
IoTick == Tick("io", [s |-> Mach, ret |-> io.retval])

\* The user acts: SDL queues an event for the next poll.
HostEvent ==
    /\ loop # "exit"
    /\ ~panicked
    /\ Len(io.events) < MaxPending
    /\ \E e \in HostEvents : io' = [io EXCEPT !.events = Append(@, e)]
    /\ UNCHANGED <<cpu, mem_ram, mem_rom, banks, cia1, cia2, vic, loop, panicked,
                   overflow_checks, obs>>

Next == Cia1Tick \/ Cia2Tick \/ CpuTick \/ VicTick \/ IoTick \/ HostEvent

Spec == Init /\ [][Next]_vars

-----------------------------------------------------------------------------
(* Specification SpecQuit: run_c64 with a program that runs for ever and a *)
(* user who closes the window at any moment.                               *)

InitQuit ==
    /\ Built(Constructed, RomSpin)
    /\ loop = "cia1"
    /\ obs = [op |-> "new", ret |-> TRUE]

\* The user closes the window: SDL queues a Quit event for the next poll.
HostQuit ==
    /\ loop # "exit"
    /\ ~panicked
    /\ io.events = <<>>
    /\ io' = [io EXCEPT !.events = <<[type |-> "Quit"]>>]
    /\ UNCHANGED <<cpu, mem_ram, mem_rom, banks, cia1, cia2, vic, loop, panicked,
                   overflow_checks, obs>>

RunLoop == Cia1Tick \/ Cia2Tick \/ CpuTick \/ VicTick \/ IoTick

\* run_c64 is a loop without a wait in it: while a step can be taken, one is.
SpecQuit == InitQuit /\ [][RunLoop \/ HostQuit]_vars /\ WF_vars(RunLoop)

-----------------------------------------------------------------------------
(* Specification SpecMem: a client of Memory calls write_byte and          *)
(* read_byte with any of the watched addresses.                            *)

MaxDirty == 1          \* RAM cells besides $0001 that do not hold 0

MemAddrs ==
    {\h0001, \h0002, \ha000, \hbfff, \hd000, \hd300, \hd301, \hd3ff,
     \hdc00, \hdcff, \hdd00, \hddff, \he000, \hffff}

MemVals == {\h00, \h55}

Layouts == 0..7 \cup {\h35, \h37}

\* A ROM file set with a byte of its own in every watched cell.
RomMem == Image({<<a, 1 + (a % 199)>> : a \in MemAddrs})

InitMem ==
    /\ Built(Constructed, RomMem)
    /\ loop = "cia1"
    /\ obs = [op |-> "new", addr |-> 0, val |-> 0, pre |-> 0, ret |-> 0,
              written |-> Image({})]

\* The BASIC and KERNAL windows, $A000-$BFFF and $E000-$FFFF.
RomWindows == (\ha000..\hbfff) \cup (\he000..\hffff)

\* memory.write_byte(addr, v).  pre is the RAM byte at addr before the call;
\* written keeps the last byte written to each cell of the two windows.
MemWrite ==
    /\ ~panicked
    /\ \E addr \in MemAddrs :
       \E v \in IF addr = ADDR_MEMORY_LAYOUT THEN Layouts ELSE MemVals :
         LET s == write_byte(Mach, addr, v) IN
         /\ Cardinality(DOMAIN s.mem_ram \ {ADDR_MEMORY_LAYOUT}) <= MaxDirty
         /\ Store(s)
         /\ obs' = [op |-> "write_byte", addr |-> addr, val |-> v,
                    pre |-> Peek(mem_ram, addr), ret |-> 0,
                    written |-> IF addr \in RomWindows
                                THEN Poke(obs.written, addr, v) ELSE obs.written]
    /\ UNCHANGED <<mem_rom, loop, overflow_checks>>

\* memory.read_byte(addr)
MemRead ==
    /\ ~panicked
    /\ \E addr \in MemAddrs :
         LET r == load_byte(Mach, addr) IN
         /\ Store(r.s)
         /\ obs' = [obs EXCEPT !.op = "read_byte", !.addr = addr, !.val = 0,
                               !.pre = 0, !.ret = r.v]
    /\ UNCHANGED <<mem_rom, loop, overflow_checks>>

NextMem == MemWrite \/ MemRead

SpecMem == InitMem /\ [][NextMem]_vars

-----------------------------------------------------------------------------
(* Specification SpecCpu: the CPU between two instructions of a program,   *)
(* with any opcode next, and step, irq and nmi called on it.               *)

MaxOps == 2            \* calls of step, irq and nmi in a run

PROGRAM == \h0200      \* where the instruction under test lies

StackPointers == {\hff, \h01}

FlagBytes == {\h00, \h04, \hc3, \hcf}

\* A counter that has just started, and one that has run for 2^32 - 3 cycles.
CycleCounts == {0, -3}

\* The instruction's operand bytes and the data they lead to.
RamCpu ==
    Image({<<ADDR_MEMORY_LAYOUT, 7>>, <<PROGRAM + 1, \h40>>, <<PROGRAM + 2, \h02>>,
           <<\h40, \h50>>, <<\h41, \h02>>, <<\h0240, \h99>>, <<\h0250, \h11>>})

\* The KERNAL ROM's vectors: NMI to $0310, IRQ and BRK to $0300.
RomCpu == Image({<<\hfffa, \h10>>, <<\hfffb, \h03>>, <<\hffff, \h03>>})

InitCpu ==
    /\ \E op \in 0..255, sp \in StackPointers, fl \in FlagBytes, cyc \in CycleCounts :
         Built([Constructed EXCEPT
                  !.cpu = set_flags([CpuNew EXCEPT !.pc = PROGRAM, !.sp = sp, !.a = \h81,
                                                   !.x = 1, !.y = 2, !.cycles = cyc], fl),
                  !.mem_ram = Poke(RamCpu, PROGRAM, op)],
               RomCpu)
    /\ loop = "cpu"
    /\ obs = [op |-> "new", opcode |-> 0, ret |-> TRUE, pre |-> CpuNew, n |-> 0]

\* A call on the CPU: r is the machine after it and its result.
CpuCall(name, r) ==
    /\ ~panicked
    /\ obs.n < MaxOps
    /\ Store(r.s)
    /\ obs' = [op |-> name, opcode |-> read_byte(Mach, cpu.pc), ret |-> r.ret,
               pre |-> cpu, n |-> obs.n + 1]
    /\ UNCHANGED <<mem_rom, loop, overflow_checks>>

CpuStep == CpuCall("step", step(Mach))

CpuIrq == CpuCall("irq", [s |-> irq(Mach), ret |-> TRUE])

CpuNmi == CpuCall("nmi", [s |-> nmi(Mach), ret |-> TRUE])

NextCpu == CpuStep \/ CpuIrq \/ CpuNmi

SpecCpu == InitCpu /\ [][NextCpu]_vars

-----------------------------------------------------------------------------
(* Specification SpecRti: an interrupt enters at any PC, SP and flags, and *)
(* the handler is an RTI.                                                  *)

\* RTI at $0300 and at $0310, where RomCpu's vectors point.
RamRti == Image({<<ADDR_MEMORY_LAYOUT, 7>>, <<\h0300, \h40>>, <<\h0310, \h40>>})

\* Status bytes: every value of the flags C, Z, I, D, V, N.
RtiFlags == {c + 2 * z + 4 * i + 8 * d + 64 * v + 128 * n :
                c \in 0..1, z \in 0..1, i \in 0..1, d \in 0..1, v \in 0..1, n \in 0..1}

InitRti ==
    /\ \E pc \in {PROGRAM, \hc0ff}, sp \in {\hff, \h80, \h02, \h01, \h00}, fl \in RtiFlags :
         Built([Constructed EXCEPT
                  !.cpu = set_flags([CpuNew EXCEPT !.pc = pc, !.sp = sp], fl),
                  !.mem_ram = RamRti],
               RomCpu)
    /\ loop = "cpu"
    /\ obs = [op |-> "new", how |-> "", start |-> cpu, pre |-> cpu]

\* irq() or nmi() is called.
RtiEnter(how, s) ==
    /\ obs.op = "new"
    /\ Store(s)
    /\ obs' = [op |-> "enter", how |-> how, start |-> cpu, pre |-> cpu]
    /\ UNCHANGED <<mem_rom, loop, overflow_checks>>

RtiIrq == RtiEnter("irq", irq(Mach))

RtiNmi == RtiEnter("nmi", nmi(Mach))

\* step() runs the handler's RTI, if the interrupt was taken.
RtiReturn ==
    /\ ~panicked
    /\ obs.op = "enter"
    /\ obs.how = "irq" => ~obs.start.idf
    /\ Store(step(Mach).s)
    /\ obs' = [obs EXCEPT !.op = "rti", !.pre = cpu]
    /\ UNCHANGED <<mem_rom, loop, overflow_checks>>

SpecRti == InitRti /\ [][RtiIrq \/ RtiNmi \/ RtiReturn]_vars

-----------------------------------------------------------------------------
(* Specification SpecStack: push and pop called on the CPU with any stack  *)
(* pointer.                                                                *)

MaxStackOps == 3       \* calls of push and pop in a run

InitStack ==
    /\ \E sp \in 0..255 : Built([Constructed EXCEPT !.cpu.sp = sp], Image({}))
    /\ loop = "cpu"
    /\ obs = [op |-> "new", val |-> 0, sp |-> 0, n |-> 0, last |-> <<>>]

\* A call of push or pop.  val is the byte pushed or popped, sp the stack
\* pointer before the call, last the op, val and sp of the call before it.
StackCall(name, s, v) ==
    /\ ~panicked
    /\ obs.n < MaxStackOps
    /\ Store(s)
    /\ obs' = [op |-> name, val |-> v, sp |-> cpu.sp, n |-> obs.n + 1,
               last |-> <<obs.op, obs.val, obs.sp>>]
    /\ UNCHANGED <<mem_rom, loop, overflow_checks>>

StackPush == \E v \in {\h00, \h55, \hff} : StackCall("push", push(Mach, v), v)

StackPop == LET r == pop(Mach) IN StackCall("pop", r.s, r.v)

SpecStack == InitStack /\ [][StackPush \/ StackPop]_vars

-----------------------------------------------------------------------------
(* Specification SpecFlags: the CPU runs PHP ; PLP from any flags.         *)

\* The program is PHP at PROGRAM and PLP after it.
InitFlags ==
    /\ \E fl \in {f \in 0..255 : ~is_bit_set(f, 5)}, sp \in {\hff, \h80, \h01, \h00} :
         Built([Constructed EXCEPT
                  !.cpu = [set_flags([CpuNew EXCEPT !.pc = PROGRAM, !.sp = sp], fl)
                              EXCEPT !.bcf = is_bit_set(fl, 4)],
                  !.mem_ram = Image({<<ADDR_MEMORY_LAYOUT, 7>>, <<PROGRAM, \h08>>,
                                     <<PROGRAM + 1, \h28>>})],
               Image({}))
    /\ loop = "cpu"
    /\ obs = [op |-> "new", opcode |-> 0, start |-> CpuNew]

\* cpu.step() while PC is in the program; start is the CPU before PHP.
FlagsStep ==
    /\ ~panicked
    /\ cpu.pc \in {PROGRAM, PROGRAM + 1}
    /\ Store(step(Mach).s)
    /\ obs' = [op |-> "step", opcode |-> read_byte(Mach, cpu.pc),
               start |-> IF obs.op = "new" THEN cpu ELSE obs.start]
    /\ UNCHANGED <<mem_rom, loop, overflow_checks>>

SpecFlags == InitFlags /\ [][FlagsStep]_vars

-----------------------------------------------------------------------------
(* Specification SpecAlu: one call of adc or sbc, as the arms of step make *)
(* it, with any accumulator, operand, carry and decimal flag.              *)

\* The bytes tried: every byte whose two nibbles are among 0..9, $A and $F
\* (all of the BCD bytes, and both signs with and without a nibble carry).
AluBytes == {16 * h + l : h, l \in (0..10) \cup {15}}

InitAlu ==
    /\ \E a \in AluBytes, c \in BOOLEAN, d \in BOOLEAN :
         Built([Constructed EXCEPT !.cpu = [CpuNew EXCEPT !.a = a, !.cf = c, !.dmf = d]],
               Image({}))
    /\ loop = "cpu"
    /\ obs = [op |-> "new", v |-> 0, pre |-> CpuNew]

\* The call: s is the machine after it, v the operand, pre the CPU before.
AluCall(name, s, v) ==
    /\ obs.op = "new"
    /\ Store(s)
    /\ obs' = [op |-> name, v |-> v, pre |-> cpu]
    /\ UNCHANGED <<mem_rom, loop, overflow_checks>>

\* self.adc(v, 2), the arm of ADC #v
AluAdc == \E v \in AluBytes : AluCall("adc", adc(Mach, v, 2), v)

\* self.sbc(v, 2), the arm of SBC #v
AluSbc == \E v \in AluBytes : AluCall("sbc", sbc(Mach, v, 2), v)

SpecAlu == InitAlu /\ [][AluAdc \/ AluSbc]_vars

-----------------------------------------------------------------------------
(* Specification SpecCia: Timer A of CIA1 is programmed through the        *)
(* registers, then the CPU retires instructions and CIA1 steps after each, *)
(* as in run_c64.                                                          *)

MaxCiaCycles == 14     \* the CPU stops once this many cycles have elapsed

InitCia ==
    /\ \E i \in BOOLEAN : Built([Constructed EXCEPT !.cpu.idf = i], Image({}))
    /\ loop = "cia1"
    /\ obs = [op |-> "new", L |-> 0, cr |-> 0, icr |-> 0, fired |-> 0]

\* The latch L, the interrupt mask and the control register of Timer A are
\* written: $11 is enable and load, $19 the same with bit 3 (OneTime).
CiaProgram ==
    /\ obs.op = "new"
    /\ \E L \in {3, 5}, icr \in {\h00, \h81}, cr \in {\h11, \h19} :
         /\ Store(With(cia1_write_register(Mach, \h4, L), LAMBDA s1 :
                  With(cia1_write_register(s1, \h5, 0), LAMBDA s2 :
                  With(cia1_write_register(s2, \hd, icr), LAMBDA s3 :
                  cia1_write_register(s3, \he, cr)))))
         /\ obs' = [op |-> "program", L |-> L, cr |-> cr, icr |-> icr, fired |-> 0]
    /\ UNCHANGED <<mem_rom, loop, overflow_checks>>

\* The CPU retires an instruction of d cycles.
CiaCpuRun ==
    /\ ~panicked
    /\ loop = "cpu"
    /\ cpu.cycles < MaxCiaCycles
    /\ \E d \in 2..7 : Store(tick(Mach, d))
    /\ loop' = "cia1"
    /\ obs' = [obs EXCEPT !.op = "cpu"]
    /\ UNCHANGED <<mem_rom, overflow_checks>>

\* cia1.step().  fired counts the steps in which Timer A's counter came to 0
\* or below, which is when the step calls reset_timer_a.
CiaStep ==
    /\ ~panicked
    /\ loop = "cia1"
    /\ obs.op # "new"
    /\ Store(cia_step(Mach, "cia1"))
    /\ loop' = "cpu"
    /\ obs' = [obs EXCEPT
                 !.op = "step",
                 !.fired = IF /\ cia1.timer_enabled["a"]
                              /\ cia1.timer_input_mode["a"] = Processor
                              /\ cia1.timer_counter["a"]
                                   - (cpu.cycles - cia1.prev_cpu_cycles) <= 0
                           THEN @ + 1 ELSE @]
    /\ UNCHANGED <<mem_rom, overflow_checks>>

SpecCia == InitCia /\ [][CiaProgram \/ CiaCpuRun \/ CiaStep]_vars

-----------------------------------------------------------------------------
(* Specification SpecCias: the registers of both CIAs are written and      *)
(* read between the instructions of the CPU, the same write going to both  *)
(* chips, and run_c64 steps CIA1 and CIA2 before each instruction.         *)

MaxRegWrites  == 3     \* register writes in a run
MaxCiasCycles == 6     \* the CPU retires no instruction past this many cycles

\* The writes: <<register, value>>.  $4 is Timer A's latch; $D takes a mask
\* with bit 7 set or clear; $11 is enable and load, $31 the same with bit 5
\* (input CNT), $51 the same with bit 6.
RegWrites ==
    {<<\h4, 3>>, <<\hd, \h81>>, <<\hd, \h82>>, <<\hd, \h03>>, <<\hd, \h02>>,
     <<\he, \h11>>, <<\he, \h31>>, <<\hf, \h11>>, <<\hf, \h51>>}

\* What an operation finds: the chips, the CPU and the RAM before it.
Before ==
    [cia1 |-> cia1, cia2 |-> cia2, vic |-> vic, cpu |-> cpu, mem_ram |-> mem_ram]

InitCias ==
    /\ \E i \in BOOLEAN : Built([Constructed EXCEPT !.cpu.idf = i], RomCpu)
    /\ loop = "cia1"
    /\ obs = [op |-> "new", chip |-> "cia1", r |-> 0, v |-> 0, val |-> 0,
              prev |-> "new", n |-> 0, pre |-> Before]

\* write_register(r, v) on CIA1 and on CIA2.
CiasWrite ==
    /\ ~panicked
    /\ loop = "cpu"
    /\ obs.n < MaxRegWrites
    /\ \E w \in RegWrites :
         /\ Store(cia2_write_register(cia1_write_register(Mach, w[1], w[2]), w[1], w[2]))
         /\ obs' = [op |-> "write", chip |-> "both", r |-> w[1], v |-> w[2], val |-> 0,
                    prev |-> obs.op, n |-> obs.n + 1, pre |-> Before]
    /\ UNCHANGED <<mem_rom, loop, overflow_checks>>

\* read_register($D) on one chip; val is the byte it returns.
CiasRead ==
    /\ ~panicked
    /\ loop = "cpu"
    /\ \E chip \in {"cia1", "cia2"} :
         obs' = [op |-> "read", chip |-> chip, r |-> \hd, v |-> 0,
                 val |-> IF chip = "cia1" THEN cia1_read_register(Mach, \hd)
                         ELSE cia2_read_register(Mach, \hd),
                 prev |-> IF obs.op = "read" /\ obs.chip # chip THEN "other" ELSE obs.op,
                 n |-> obs.n, pre |-> Before]
    /\ UNCHANGED <<cpu, mem_ram, mem_rom, banks, cia1, cia2, vic, io, loop, panicked,
                   overflow_checks>>

\* The CPU retires an instruction of d cycles.
CiasCpuRun ==
    /\ ~panicked
    /\ loop = "cpu"
    /\ cpu.cycles < MaxCiasCycles
    /\ \E d \in {2, 4} : Store(tick(Mach, d))
    /\ loop' = "cia1"
    /\ obs' = [obs EXCEPT !.op = "cpu", !.prev = obs.op, !.pre = Before]
    /\ UNCHANGED <<mem_rom, overflow_checks>>

\* cia1.step() and cia2.step() of run_c64.
CiasStep(chip, next) ==
    /\ ~panicked
    /\ loop = chip
    /\ Store(cia_step(Mach, chip))
    /\ loop' = next
    /\ obs' = [obs EXCEPT !.op = "step", !.chip = chip, !.prev = obs.op, !.pre = Before]
    /\ UNCHANGED <<mem_rom, overflow_checks>>

Cias1Step == CiasStep("cia1", "cia2")

Cias2Step == CiasStep("cia2", "cpu")

SpecCias ==
    InitCias /\ [][CiasWrite \/ CiasRead \/ CiasCpuRun \/ Cias1Step \/ Cias2Step]_vars

-----------------------------------------------------------------------------
(* Specification SpecVic: the raster compare value, the IRQ mask and the   *)
(* graphics mode are written to the VIC, then the CPU runs and run_c64     *)
(* steps the VIC after it; the program acknowledges the raster IRQ and     *)
(* clears I when it likes.                                                 *)

MaxVicLines == 330     \* the CPU stops once the VIC has processed this many lines
MaxCli      == 2       \* CLI instructions in a run

\* Compare values at both ends of the frame.
RasterCompares == {1, 311}

\* CR1 and CR2 values: CharMode, MCBitmapMode, ExitBgMode and IllegalMode.
ModeWrites == {<<\h00, \h00>>, <<\h20, \h10>>, <<\h40, \h00>>, <<\h60, \h10>>}

InitVic ==
    /\ Built(Constructed, RomCpu)
    /\ loop = "cpu"
    /\ obs = [op |-> "new", K |-> 0, r |-> 0, v |-> 0, val |-> 0, n |-> 0, cli |-> 0,
              lines |-> 0, seen |-> 0, ended |-> FALSE, due |-> FALSE, ret |-> TRUE,
              limit |-> MaxVicLines, pre |-> Before]

\* write_register on $12 and $11 (the compare value K, with the mode bits of
\* CR1), $16 (CR2) and $1A (the IRQ mask).
VicProgram ==
    /\ obs.op = "new"
    /\ \E K \in RasterCompares, ien \in {0, 1}, md \in ModeWrites :
         /\ vic' = vic_write_register(
                       vic_write_register(
                           vic_write_register(
                               vic_write_register(vic, \h12, K % 256),
                               \h11, md[1] + (IF K >= 256 THEN \h80 ELSE 0)),
                           \h16, md[2]),
                       \h1a, ien)
         /\ obs' = [obs EXCEPT !.op = "program", !.K = K, !.pre = Before]
    /\ UNCHANGED <<cpu, mem_ram, mem_rom, banks, cia1, cia2, io, loop, panicked,
                   overflow_checks>>

\* The CPU retires instructions up to the cycle of the next raster line or,
\* right after a line, a single one of 2 cycles.
VicCpuRun ==
    /\ ~panicked
    /\ loop = "cpu"
    /\ obs.op # "new"
    /\ obs.lines < obs.limit
    /\ \E d \in {2, vic.next_raster_at - cpu.cycles} :
         /\ d >= 2
         /\ d = 2 => obs.due
         /\ Store(tick(Mach, d))
    /\ loop' = "vic"
    /\ obs' = [obs EXCEPT !.op = "cpu", !.pre = Before]
    /\ UNCHANGED <<mem_rom, overflow_checks>>

\* The CPU retires a CLI.
VicCli ==
    /\ ~panicked
    /\ loop = "cpu"
    /\ obs.op # "new"
    /\ cpu.idf
    /\ obs.cli < MaxCli
    /\ Store(flag_op(Mach, "cli"))
    /\ loop' = "vic"
    /\ obs' = [obs EXCEPT !.op = "cli", !.cli = @ + 1, !.pre = Before]
    /\ UNCHANGED <<mem_rom, overflow_checks>>

\* The program acknowledges a pending IRQ: write_register($19, v), then
\* read_register($19); val is the byte read.
VicAck ==
    /\ ~panicked
    /\ loop = "cpu"
    /\ obs.op # "new"
    /\ vic.irq_status # 0
    /\ \E v \in {\h01} :
         /\ vic' = vic_write_register(vic, \h19, v)
         /\ obs' = [obs EXCEPT !.op = "ack", !.v = v, !.val = read_register(vic', \h19),
                               !.pre = Before]
    /\ UNCHANGED <<cpu, mem_ram, mem_rom, banks, cia1, cia2, io, loop, panicked,
                   overflow_checks>>

\* vic.step() of run_c64.  due: the step found a raster line due; lines
\* counts the lines whose processing came to its end; seen counts, frame by
\* frame, the steps that found line K due, and ended marks the step that
\* closed a frame.
VicStep ==
    /\ ~panicked
    /\ loop = "vic"
    /\ LET r   == vic_step(Mach)
           adv == r.s.vic.next_raster_at # vic.next_raster_at
           due == adv \/ ~r.ret
       IN  /\ Store(r.s)
           /\ loop' = IF r.ret THEN "cpu" ELSE "exit"
           /\ obs' = [obs EXCEPT
                        !.op = "step", !.ret = r.ret, !.due = due,
                        !.lines = @ + B(adv),
                        !.seen = (IF obs.ended THEN 0 ELSE @)
                                     + B(due /\ raster_counter(vic) = obs.K),
                        !.ended = r.s.vic.frame_c # vic.frame_c,
                        !.pre = Before]
    /\ UNCHANGED <<mem_rom, overflow_checks>>

SpecVic == InitVic /\ [][VicProgram \/ VicCpuRun \/ VicCli \/ VicAck \/ VicStep]_vars

-----------------------------------------------------------------------------
(* Specification SpecVicRegs: the control registers and the memory         *)
(* pointers of the VIC are written, in any order, between raster lines,    *)
(* where the raster counter reaches bit 8.                                 *)

MaxVicWrites == 2      \* register writes in a run
MaxRegsLines == 257    \* raster lines the VIC processes in a run

\* The raster lines the program writes the registers on.
WriteLines == {255, 256}

\* The writes: <<register, value>>.  CR1 with the mode bits 5 and 6 and with
\* bit 7; CR2 without and with bit 4; memory pointers.
VicWrites ==
    {<<\h11, v>> : v \in {\h00, \h1b, \h3b, \h5b, \h7b, \h9b}}
        \cup {<<\h16, v>> : v \in {\h08, \h18}}
        \cup {<<\h18, v>> : v \in {\h00, \h08, \h0e, \h10, \h14, \h1e, \hf0, \hff}}

InitRegs ==
    /\ Built(Constructed, RomCpu)
    /\ loop = "cpu"
    /\ obs = [op |-> "run", K |-> 0, r |-> 0, v |-> 0, val |-> 0, n |-> 0, cli |-> 0,
              lines |-> 0, seen |-> 0, ended |-> FALSE, due |-> FALSE, ret |-> TRUE,
              limit |-> MaxRegsLines, pre |-> Before]

\* write_register(r, v).
RegsWrite ==
    /\ ~panicked
    /\ loop = "cpu"
    /\ obs.n < MaxVicWrites
    /\ raster_counter(vic) \in WriteLines
    /\ \E w \in VicWrites :
         /\ vic' = vic_write_register(vic, w[1], w[2])
         /\ obs' = [obs EXCEPT !.op = "write", !.r = w[1], !.v = w[2], !.n = @ + 1,
                               !.pre = Before]
    /\ UNCHANGED <<cpu, mem_ram, mem_rom, banks, cia1, cia2, io, loop, panicked,
                   overflow_checks>>

SpecVicRegs == InitRegs /\ [][RegsWrite \/ VicCpuRun \/ VicStep]_vars

-----------------------------------------------------------------------------
(* Specification SpecCiaIrq: Timer A of CIA1 is programmed with a latch of *)
(* any size and its IRQ enabled, then the CPU retires instructions, among  *)
(* them CLI, and CIA1 steps after each.                                    *)

MaxIrqCycles == 10     \* the CPU stops once this many cycles have elapsed
MaxIrqCli    == 1      \* CLI instructions in a run

\* Latches below and from $8000 on.
WideLatches == {\h0003, \h7fff, \h8000, \h8003, \hffff}

InitCiaIrq ==
    /\ \E i \in BOOLEAN : Built([Constructed EXCEPT !.cpu.idf = i], RomCpu)
    /\ loop = "cia1"
    /\ obs = [op |-> "new", L |-> 0, cr |-> 0, cli |-> 0, missed |-> FALSE,
              was |-> FALSE, pre |-> Before]

\* The latch L, the interrupt mask and the control register of Timer A are
\* written: $11 is enable and load, $19 the same with bit 3 (OneTime).
IrqProgram ==
    /\ obs.op = "new"
    /\ \E L \in WideLatches, cr \in {\h11, \h19} :
         /\ Store(With(cia1_write_register(Mach, \h4, L % 256), LAMBDA s1 :
                  With(cia1_write_register(s1, \h5, L \div 256), LAMBDA s2 :
                  With(cia1_write_register(s2, \hd, \h81), LAMBDA s3 :
                  cia1_write_register(s3, \he, cr)))))
         /\ obs' = [obs EXCEPT !.op = "program", !.L = L, !.cr = cr, !.pre = Before]
    /\ UNCHANGED <<mem_rom, loop, overflow_checks>>

\* The CPU retires an instruction of d cycles.
IrqCpuRun ==
    /\ ~panicked
    /\ loop = "cpu"
    /\ cpu.cycles < MaxIrqCycles
    /\ \E d \in {2, 4} : Store(tick(Mach, d))
    /\ loop' = "cia1"
    /\ obs' = [obs EXCEPT !.op = "cpu", !.pre = Before]
    /\ UNCHANGED <<mem_rom, overflow_checks>>

\* The CPU retires a CLI.
IrqCli ==
    /\ ~panicked
    /\ loop = "cpu"
    /\ cpu.idf
    /\ obs.cli < MaxIrqCli
    /\ Store(flag_op(Mach, "cli"))
    /\ loop' = "cia1"
    /\ obs' = [obs EXCEPT !.op = "cli", !.cli = @ + 1, !.pre = Before]
    /\ UNCHANGED <<mem_rom, overflow_checks>>

\* The program stops Timer A: write_register($E, $00).
IrqStop ==
    /\ ~panicked
    /\ loop = "cpu"
    /\ cia1.timer_enabled["a"]
    /\ Store(cia1_write_register(Mach, \he, \h00))
    /\ obs' = [obs EXCEPT !.op = "stop", !.pre = Before]
    /\ UNCHANGED <<mem_rom, loop, overflow_checks>>

\* cia1.step().  missed: Timer A's triggered flag was set by a step that found
\* I set, and the CPU has not entered the IRQ handler since; was: missed
\* before the step.
IrqStep ==
    /\ ~panicked
    /\ loop = "cia1"
    /\ obs.op # "new"
    /\ LET s == cia_step(Mach, "cia1")
           raised == s.cia1.timer_irq_triggered["a"] /\ ~cia1.timer_irq_triggered["a"]
       IN  /\ Store(s)
           /\ obs' = [obs EXCEPT
                        !.op = "step", !.was = obs.missed,
                        !.missed = IF s.cpu.pc # cpu.pc THEN FALSE
                                   ELSE IF raised /\ cpu.idf THEN TRUE ELSE @,
                        !.pre = Before]
    /\ loop' = "cpu"
    /\ UNCHANGED <<mem_rom, overflow_checks>>

SpecCiaIrq ==
    InitCiaIrq /\ [][IrqProgram \/ IrqCpuRun \/ IrqCli \/ IrqStop \/ IrqStep]_vars

-----------------------------------------------------------------------------
(* Specification SpecSprites: the program writes the position registers of *)
(* the sprites and reads them back.                                        *)

MaxSpriteWrites == 2   \* writes of position registers in a run

SpriteBytes == {\h00, \h01, \h7f, \h80, \hff}

InitSprites ==
    /\ Built(Constructed, RomCpu)
    /\ loop = "cpu"
    /\ obs = [op |-> "new", r |-> 0, v |-> 0, n |-> 0, val |-> 0, pre |-> Before]

\* write_register(r, v) for a position register r.
SpritesWrite ==
    /\ obs.n < MaxSpriteWrites
    /\ \E r \in 0..15, v \in SpriteBytes :
         /\ vic' = vic_write_register(vic, r, v)
         /\ obs' = [obs EXCEPT !.op = "write", !.r = r, !.v = v, !.n = @ + 1,
                               !.pre = Before]
    /\ UNCHANGED <<cpu, mem_ram, mem_rom, banks, cia1, cia2, io, loop, panicked,
                   overflow_checks>>

\* read_register(r) for the register that was just written.
SpritesRead ==
    /\ obs.op = "write"
    /\ obs' = [obs EXCEPT !.op = "read", !.val = read_register(vic, obs.r),
                          !.pre = Before]
    /\ UNCHANGED <<cpu, mem_ram, mem_rom, banks, cia1, cia2, vic, io, loop, panicked,
                   overflow_checks>>

SpecSprites == InitSprites /\ [][SpritesWrite \/ SpritesRead]_vars

-----------------------------------------------------------------------------
(* Specification SpecDraw: the program sets sprite 0 up, with its data in  *)
(* RAM, and the VIC draws the first lines of the frame.                    *)

MaxDrawLines == 30     \* raster lines the VIC processes in a run

\* The pointer of sprite 0 at $07F8 leads to $0340, where every bit of the
\* sprite is set.
RamDraw ==
    Image({<<ADDR_MEMORY_LAYOUT, 7>>, <<\h07f8, 13>>}
              \cup {<<\h0340 + k, \hff>> : k \in 0..62})

InitDraw ==
    /\ Built([Constructed EXCEPT !.mem_ram = RamDraw], RomCpu)
    /\ loop = "cpu"
    /\ obs = [op |-> "new", lines |-> 0, limit |-> MaxDrawLines, due |-> FALSE,
              ret |-> TRUE, pixels |-> {}, pre |-> Before]

\* The program writes sprite 0's X position and its bit of the X-MSB, the
\* double-width and the multicolor register, and enables the sprite.
DrawProgram ==
    /\ obs.op = "new"
    /\ \E mx \in {24, 200}, msb \in 0..1, dw \in 0..1, mc \in 0..1 :
         vic' = vic_write_register(
                    vic_write_register(
                        vic_write_register(
                            vic_write_register(
                                vic_write_register(vic, \h00, mx), \h10, msb),
                            \h1d, dw),
                        \h1c, mc),
                    \h15, 1)
    /\ obs' = [obs EXCEPT !.op = "program", !.pre = Before]
    /\ UNCHANGED <<cpu, mem_ram, mem_rom, banks, cia1, cia2, io, loop, panicked,
                   overflow_checks>>

\* vic.step() of run_c64; pixels is what it draws for the sprites.
DrawStep ==
    /\ ~panicked
    /\ loop = "vic"
    /\ LET r   == vic_step(Mach)
           adv == r.s.vic.next_raster_at # vic.next_raster_at
       IN  /\ Store(r.s)
           /\ loop' = IF r.ret THEN "cpu" ELSE "exit"
           /\ obs' = [obs EXCEPT
                        !.op = "step", !.ret = r.ret, !.due = adv \/ ~r.ret,
                        !.lines = @ + B(adv),
                        !.pixels = vic_step_sprites(Mach),
                        !.pre = Before]
    /\ UNCHANGED <<mem_rom, overflow_checks>>

SpecDraw == InitDraw /\ [][DrawProgram \/ VicCpuRun \/ DrawStep]_vars

-----------------------------------------------------------------------------
(* Specification SpecKeys: the host presses and releases keys, the program *)
(* selects keyboard columns through CIA1's PRA and reads PRB.              *)

MaxKeyEvents == 3      \* key events of the host in a run

Keys == {"Y", "Space", "F1", "F3", "Escape"}

\* The bytes the program writes to PRA: none selected, all selected, one
\* column driven low.
ColumnSelects == {\hff, \h00} \cup {255 - 2 ^ c : c \in 0..7}

InitKeys ==
    /\ Built(Constructed, RomCpu)
    /\ loop = "cpu"
    /\ obs = [op |-> "new", key |-> "", held |-> {}, n |-> 0, val |-> 0, pre |-> Before,
              pre_io |-> io]

\* A KeyDown event of the host: handle_keydown.
KeysDown ==
    /\ obs.n < MaxKeyEvents
    /\ \E k \in Keys :
         /\ io' = handle_keydown(io, k)
         /\ obs' = [obs EXCEPT !.op = "down", !.key = k, !.held = @ \cup {k}, !.n = @ + 1,
                               !.pre = Before, !.pre_io = io]
    /\ UNCHANGED <<cpu, mem_ram, mem_rom, banks, cia1, cia2, vic, loop, panicked,
                   overflow_checks>>

\* A KeyUp event of the host, for a key that is down: handle_keyup.
KeysUp ==
    /\ obs.n < MaxKeyEvents
    /\ \E k \in obs.held :
         /\ io' = handle_keyup(io, k)
         /\ obs' = [obs EXCEPT !.op = "up", !.key = k, !.held = @ \ {k}, !.n = @ + 1,
                               !.pre = Before, !.pre_io = io]
    /\ UNCHANGED <<cpu, mem_ram, mem_rom, banks, cia1, cia2, vic, loop, panicked,
                   overflow_checks>>

\* Cia1::write_register(0x0, v).
KeysSelect ==
    /\ \E v \in ColumnSelects :
         /\ v # cia1.pra
         /\ cia1' = cia1_write_register(Mach, \h0, v).cia1
    /\ obs' = [obs EXCEPT !.op = "select", !.pre = Before, !.pre_io = io]
    /\ UNCHANGED <<cpu, mem_ram, mem_rom, banks, cia2, vic, io, loop, panicked,
                   overflow_checks>>

\* Cia1::read_register(0x1): val is the byte returned.
KeysRead ==
    /\ obs.op # "read"
    /\ obs' = [obs EXCEPT !.op = "read", !.val = cia1_read_register(Mach, \h1),
                          !.pre = Before, !.pre_io = io]
    /\ UNCHANGED <<cpu, mem_ram, mem_rom, banks, cia1, cia2, vic, io, loop, panicked,
                   overflow_checks>>

SpecKeys == InitKeys /\ [][KeysDown \/ KeysUp \/ KeysSelect \/ KeysRead]_vars

-----------------------------------------------------------------------------
(* Properties of run_c64, checked under Spec.                              *)

\* The component that run_c64 steps after pos when the step returned true.
Successor(pos) ==
    CASE pos = "cia1" -> "cia2"
      [] pos = "cia2" -> "cpu"
      [] pos = "cpu"  -> "vic"
      [] pos = "vic"  -> "io"
      [] pos = "io"   -> "cia1"

\* C1: the run loop starts a tick with CIA1 and steps CIA1, CIA2, CPU, VIC,
\* host in that order; the component that steps is always the next in the
\* order; the first step that returns false ends the loop at once, and after
\* the loop has ended no component steps again.
C1_RunLoopOrder ==
    /\ (obs.op = "new" => loop = "cia1")
    /\ [][/\ loop # "exit"
          /\ obs' = obs => loop' = loop
          /\ obs' # obs => obs'.op = loop
          /\ (obs' # obs /\ ~panicked') =>
                loop' = IF obs'.ret THEN Successor(loop) ELSE "exit"]_vars

\* The CPU step returned false after both CIAs had stepped: the loop is over
\* without the VIC or the host having stepped in that tick.
C1_Witness == obs.op = "cpu" /\ ~obs.ret /\ loop = "exit" /\ ~panicked

-----------------------------------------------------------------------------
(* Properties of Memory, checked under SpecMem.                            *)

\* The last call was write_byte(ADDR_MEMORY_LAYOUT, obs.val) and it returned.
LayoutWritten == obs.op = "write_byte" /\ obs.addr = ADDR_MEMORY_LAYOUT /\ ~panicked

\* C3: after a write of any byte v to $0001 the three slots depend on bits
\* 0..2 of v alone: KERNAL is ROM iff HIRAM, else RAM; BASIC is ROM iff LORAM
\* and HIRAM, else RAM; the character slot is IO iff CHAREN and (LORAM or
\* HIRAM), RAM iff CHAREN and neither, ROM otherwise.
C3_BankRule ==
    LayoutWritten =>
        LET loram  == is_bit_set(obs.val, 0)
            hiram  == is_bit_set(obs.val, 1)
            charen == is_bit_set(obs.val, 2)
        IN /\ banks[BankKernal] = (IF hiram THEN Rom ELSE Ram)
           /\ banks[BankBasic] = (IF loram /\ hiram THEN Rom ELSE Ram)
           /\ banks[BankCharen] = (IF charen /\ (loram \/ hiram) THEN Io
                                   ELSE IF charen THEN Ram
                                   ELSE Rom)

\* $35 (LORAM and CHAREN, bits 4 and 5 besides) was written: BASIC and KERNAL
\* are RAM and the character slot is IO.
C3_Witness ==
    /\ LayoutWritten
    /\ obs.val = \h35
    /\ banks[BankKernal] = Ram
    /\ banks[BankBasic] = Ram
    /\ banks[BankCharen] = Io

\* The source that the table of read_byte names for an address.
TableSource(addr) ==
    IF addr \in \ha000..\hbfff THEN (IF banks[BankBasic] = Rom THEN "rom" ELSE "ram")
    ELSE IF addr \in \he000..\hffff THEN (IF banks[BankKernal] = Rom THEN "rom" ELSE "ram")
    ELSE IF addr \in \hd000..\hd3ff THEN
        (IF banks[BankCharen] = Io THEN "vic"
         ELSE IF banks[BankCharen] = Rom THEN "rom" ELSE "ram")
    ELSE IF addr \in \hdc00..\hdcff THEN (IF banks[BankCharen] = Io THEN "cia1" ELSE "ram")
    ELSE IF addr \in \hdd00..\hddff THEN (IF banks[BankCharen] = Io THEN "cia2" ELSE "ram")
    ELSE "ram"

\* C4: read_byte returns a byte from the source its table names: the ROM byte
\* or the RAM byte at the address, $0001 reading back the last layout byte,
\* and for a device address while the character slot is IO the register of
\* the VIC, CIA1 or CIA2 (for the VIC, register addr & $7F).
C4_ReadSources ==
    obs.op = "read_byte" =>
        /\ ~panicked
        /\ LET src == TableSource(obs.addr) IN
           /\ src = "rom" => obs.ret = Peek(mem_rom, obs.addr)
           /\ src = "ram" => obs.ret = Peek(mem_ram, obs.addr)
           /\ src = "vic" => obs.ret = read_register(vic, BitAnd(obs.addr, \h7f))

\* The addresses of the VIC, CIA1 and CIA2 registers.
DeviceAddrs == (\hd000..\hd3ff) \cup (\hdc00..\hdcff) \cup (\hdd00..\hddff)

\* C5: while the character slot is IO, write_byte to any address in
\* $D000-$D3FF, $DC00-$DCFF or $DD00-$DDFF returns with the RAM byte at that
\* address as it was before the call (the byte went to the device); an
\* address dispatched to a device on read is dispatched to it on write.
C5_IoWritesBypassRam ==
    (obs.op = "write_byte" /\ obs.addr \in DeviceAddrs /\ banks[BankCharen] = Io) =>
        /\ ~panicked
        /\ Peek(mem_ram, obs.addr) = obs.pre
        /\ read_source(banks, obs.addr) = write_target(banks, obs.addr)

\* The slot that maps the BASIC or the KERNAL window holding addr.
WindowSlot(addr) == IF addr \in \ha000..\hbfff THEN BankBasic ELSE BankKernal

\* C6: in the BASIC and KERNAL windows a read returns the ROM byte while the
\* slot is ROM, whatever has been written there, and a write stores into the
\* RAM underneath; once a write to $0001 has made the slot RAM a read returns
\* the last value written to the address, also when it was written while the
\* ROM was mapped; with the slot back to ROM the read returns the ROM byte.
C6_RomWindows ==
    /\ (obs.op = "read_byte" /\ obs.addr \in RomWindows) =>
          /\ ~panicked
          /\ obs.ret = IF banks[WindowSlot(obs.addr)] = Rom
                       THEN Peek(RomMem, obs.addr)
                       ELSE Peek(obs.written, obs.addr)
    /\ (obs.op = "write_byte" /\ obs.addr \in RomWindows) =>
          /\ ~panicked
          /\ Peek(mem_ram, obs.addr) = obs.val
    /\ mem_rom = RomMem

\* $A000 is read with BASIC switched to RAM by $35, and the read returns the
\* $55 that was written there, not the ROM byte.
C6_Witness ==
    /\ obs.op = "read_byte"
    /\ obs.addr = \ha000
    /\ Peek(mem_ram, ADDR_MEMORY_LAYOUT) = \h35
    /\ banks[BankBasic] = Ram
    /\ obs.ret = \h55
    /\ Peek(RomMem, \ha000) # \h55

\* C7: the slots and the byte read back at $0001 are those that the last
\* value written to $0001 gives on a machine just built, whatever was written
\* before it, so writing a value again changes nothing; after $07 a read of
\* $A000 comes from the BASIC ROM.
C7_HistoryFree ==
    /\ ~panicked =>
          banks = setup_memory_banks(Constructed, Peek(mem_ram, ADDR_MEMORY_LAYOUT)).banks
    /\ LayoutWritten =>
          /\ read_byte(Mach, ADDR_MEMORY_LAYOUT) = obs.val
          /\ ~read_panics(Mach, ADDR_MEMORY_LAYOUT)
          /\ obs.val = obs.pre =>
                banks = setup_memory_banks(Constructed, obs.pre).banks
          /\ obs.val = \h07 =>
                /\ read_source(banks, \ha000) = "rom"
                /\ read_byte(Mach, \ha000) = Peek(RomMem, \ha000)

\* $35 is written to $0001 when $0001 already holds $35.
C7_Witness ==
    /\ LayoutWritten
    /\ obs.val = \h35
    /\ obs.pre = \h35
    /\ banks[BankBasic] = Ram

-----------------------------------------------------------------------------
(* Properties of the CPU, checked under SpecCpu.                           *)

\* The step from this state to the next is a call of op that returned.
Called(op) == obs'.n = obs.n + 1 /\ obs'.op = op /\ ~panicked'

\* C2: no call of step, irq or nmi that returns lowers the 32-bit cycle
\* counter.
C2_CyclesNonDecreasing ==
    [][(obs'.n = obs.n + 1 /\ ~panicked') => ~Lt32(cpu'.cycles, cpu.cycles)]_vars

\* The k-th byte the call has pushed, k = 0 for the first.
Pushed(k) == Peek(mem_ram', BASE_ADDR_STACK + ((cpu.sp - k) % U8))

\* The word the CPU reads at a vector.
Vector(addr) == read_byte(Mach, addr) + 256 * read_byte(Mach, addr + 1)

\* Bits 0..3, 6 and 7 of a status byte are the flags C, Z, I, D, V, N of the
\* CPU before the call.
StatusOf(p) ==
    /\ is_bit_set(p, 0) = cpu.cf
    /\ is_bit_set(p, 1) = cpu.zf
    /\ is_bit_set(p, 2) = cpu.idf
    /\ is_bit_set(p, 3) = cpu.dmf
    /\ is_bit_set(p, 6) = cpu.of
    /\ is_bit_set(p, 7) = cpu.nf

\* The call has left A, X, Y and every flag but I as they were.
RegistersKept ==
    /\ cpu'.a = cpu.a /\ cpu'.x = cpu.x /\ cpu'.y = cpu.y
    /\ cpu'.cf = cpu.cf /\ cpu'.zf = cpu.zf /\ cpu'.dmf = cpu.dmf
    /\ cpu'.of = cpu.of /\ cpu'.nf = cpu.nf /\ cpu'.bcf = cpu.bcf

\* C8: irq() with I clear pushes PCH, PCL and the status with bit 4 clear and
\* bit 5 set, sets I, loads PC from $FFFE/$FFFF, leaves SP three lower
\* (mod 256) and adds 7 to the 32-bit cycle counter; with I set it leaves the
\* CPU, the cycle counter and the memory as they were.
C8_Irq ==
    [][Called("irq") =>
         IF ~cpu.idf
         THEN /\ Pushed(0) = cpu.pc \div 256
              /\ Pushed(1) = cpu.pc % 256
              /\ StatusOf(Pushed(2))
              /\ ~is_bit_set(Pushed(2), 4)
              /\ is_bit_set(Pushed(2), 5)
              /\ cpu'.idf
              /\ cpu'.pc = Vector(ADDR_IRQ_VECTOR)
              /\ cpu'.sp = (cpu.sp - 3) % U8
              /\ cpu'.cycles = Add32(cpu.cycles, 7)
              /\ RegistersKept
         ELSE /\ cpu' = cpu
              /\ mem_ram' = mem_ram
              /\ banks' = banks]_vars

\* irq() was taken with SP = $01: the third push went to $01FF and the CPU
\* is at the IRQ vector's $0300 with I set.
C8_Witness ==
    /\ obs.op = "irq"
    /\ ~panicked
    /\ ~obs.pre.idf
    /\ obs.pre.sp = \h01
    /\ cpu.sp = \hfe
    /\ cpu.idf
    /\ cpu.pc = \h0300
    /\ Peek(mem_ram, \h01ff) = flags(obs.pre) - 16

\* C9: nmi() is taken whatever I is: it pushes PCH, PCL and the status with
\* bit 4 clear, loads PC from $FFFA/$FFFB, adds 7 to the 32-bit cycle counter
\* and leaves I, the other flags, A, X and Y as they were.
C9_Nmi ==
    [][Called("nmi") =>
         /\ Pushed(0) = cpu.pc \div 256
         /\ Pushed(1) = cpu.pc % 256
         /\ StatusOf(Pushed(2))
         /\ ~is_bit_set(Pushed(2), 4)
         /\ cpu'.pc = Vector(ADDR_NMI_VECTOR)
         /\ cpu'.sp = (cpu.sp - 3) % U8
         /\ cpu'.cycles = Add32(cpu.cycles, 7)
         /\ cpu'.idf = cpu.idf
         /\ RegistersKept]_vars

\* nmi() was called with I set: it was taken, the CPU is at the NMI vector's
\* $0310 and I is still set.
C9_Witness ==
    /\ obs.op = "nmi"
    /\ ~panicked
    /\ obs.pre.idf
    /\ cpu.idf
    /\ cpu.pc = \h0310
    /\ Peek(mem_ram, BASE_ADDR_STACK + obs.pre.sp) = obs.pre.pc \div 256

\* C10: BRK at p pushes p + 2, high byte first, and the status with bits 4
\* and 5 set, sets I, loads PC from $FFFE/$FFFF and takes 7 cycles; the status
\* that PHP pushes has bits 4 and 5 set too; the one that irq() and nmi() push
\* has bit 4 clear.
C10_Brk ==
    [][/\ (Called("step") /\ obs'.opcode = \h00) =>
            /\ Pushed(0) = ((cpu.pc + 2) % U16) \div 256
            /\ Pushed(1) = ((cpu.pc + 2) % U16) % 256
            /\ StatusOf(Pushed(2))
            /\ is_bit_set(Pushed(2), 4)
            /\ is_bit_set(Pushed(2), 5)
            /\ cpu'.idf
            /\ cpu'.pc = Vector(ADDR_IRQ_VECTOR)
            /\ cpu'.cycles = Add32(cpu.cycles, 7)
       /\ (Called("step") /\ obs'.opcode = \h08) =>
            /\ StatusOf(Pushed(0))
            /\ is_bit_set(Pushed(0), 4)
            /\ is_bit_set(Pushed(0), 5)
       /\ ((Called("irq") /\ ~cpu.idf) \/ Called("nmi")) =>
            ~is_bit_set(Pushed(2), 4)]_vars

\* BRK at $0200 ran: $02, $02 and the status are on the stack and the CPU is
\* at the IRQ vector's $0300 with I set.
C10_Witness ==
    /\ obs.op = "step"
    /\ obs.opcode = \h00
    /\ ~panicked
    /\ obs.pre.pc = PROGRAM
    /\ obs.pre.sp = \hff
    /\ Peek(mem_ram, \h01ff) = \h02
    /\ Peek(mem_ram, \h01fe) = \h02
    /\ Peek(mem_ram, \h01fd) = flags(obs.pre)
    /\ cpu.pc = \h0300
    /\ cpu.idf

\* The 151 opcodes of the MOS 6502's documented instruction set.
LegalOpcodes ==
    {
     \h00, \h01, \h05, \h06, \h08, \h09, \h0a, \h0d, \h0e, \h10, \h11, \h15,
     \h16, \h18, \h19, \h1d, \h1e, \h20, \h21, \h24, \h25, \h26, \h28, \h29,
     \h2a, \h2c, \h2d, \h2e, \h30, \h31, \h35, \h36, \h38, \h39, \h3d, \h3e,
     \h40, \h41, \h45, \h46, \h48, \h49, \h4a, \h4c, \h4d, \h4e, \h50, \h51,
     \h55, \h56, \h58, \h59, \h5d, \h5e, \h60, \h61, \h65, \h66, \h68, \h69,
     \h6a, \h6c, \h6d, \h6e, \h70, \h71, \h75, \h76, \h78, \h79, \h7d, \h7e,
     \h81, \h84, \h85, \h86, \h88, \h8a, \h8c, \h8d, \h8e, \h90, \h91, \h94,
     \h95, \h96, \h98, \h99, \h9a, \h9d, \ha0, \ha1, \ha2, \ha4, \ha5, \ha6,
     \ha8, \ha9, \haa, \hac, \had, \hae, \hb0, \hb1, \hb4, \hb5, \hb6, \hb8,
     \hb9, \hba, \hbc, \hbd, \hbe, \hc0, \hc1, \hc4, \hc5, \hc6, \hc8, \hc9,
     \hca, \hcc, \hcd, \hce, \hd0, \hd1, \hd5, \hd6, \hd8, \hd9, \hdd, \hde,
     \he0, \he1, \he4, \he5, \he6, \he8, \he9, \hea, \hec, \hed, \hee, \hf0,
     \hf1, \hf5, \hf6, \hf8, \hf9, \hfd, \hfe}

\* C11: step returns false exactly when the byte fetched at PC is not one of
\* the 151 legal opcodes; on such a byte the cycle counter, A, X, Y, SP, the
\* flags and the memory are as before and PC is one byte further.
C11_UnknownOpcode ==
    /\ Cardinality(LegalOpcodes) = 151
    /\ [][Called("step") =>
            /\ obs'.ret = (obs'.opcode \in LegalOpcodes)
            /\ obs'.opcode \notin LegalOpcodes =>
                  /\ cpu' = [cpu EXCEPT !.pc = (cpu.pc + 1) % U16]
                  /\ mem_ram' = mem_ram
                  /\ banks' = banks]_vars

\* step met $02 at $0200: it returned false with PC at $0201 and the cycle
\* counter where it was.
C11_Witness ==
    /\ obs.op = "step"
    /\ obs.opcode = \h02
    /\ ~obs.ret
    /\ ~panicked
    /\ obs.pre.pc = PROGRAM
    /\ cpu.pc = PROGRAM + 1
    /\ cpu.cycles = obs.pre.cycles

-----------------------------------------------------------------------------
(* Properties of the stack, checked under SpecStack.                       *)

\* C12: push stores its byte at $0100 + SP and then lowers SP by one mod 256;
\* pop raises SP by one mod 256 and then reads $0100 + SP; so for any byte
\* and any SP, also SP = $00 where the push wraps SP to $FF, a pop that
\* follows a push returns the byte pushed and leaves SP as it was before the
\* push.
C12_StackRoundTrip ==
    /\ ~panicked
    /\ obs.op = "push" =>
          /\ Peek(mem_ram, BASE_ADDR_STACK + obs.sp) = obs.val
          /\ cpu.sp = (obs.sp - 1) % U8
    /\ obs.op = "pop" =>
          /\ cpu.sp = (obs.sp + 1) % U8
          /\ obs.val = Peek(mem_ram, BASE_ADDR_STACK + cpu.sp)
    /\ (obs.op = "pop" /\ obs.last[1] = "push") =>
          /\ obs.val = obs.last[2]
          /\ cpu.sp = obs.last[3]

\* $55 was pushed with SP = $00, which left SP at $FF, and popped again.
C12_Witness ==
    /\ obs.op = "pop"
    /\ obs.last = <<"push", \h55, \h00>>
    /\ obs.sp = \hff
    /\ obs.val = \h55
    /\ cpu.sp = \h00

-----------------------------------------------------------------------------
(* Properties of the status register, checked under SpecFlags.             *)

\* C13: whatever the flags C, Z, I, D, B, V and N are, PHP followed at once
\* by PLP leaves the seven flags and SP as they were before PHP.
C13_StatusRoundTrip ==
    /\ ~panicked
    /\ (obs.op = "step" /\ obs.opcode = \h28) =>
          /\ cpu.cf = obs.start.cf
          /\ cpu.zf = obs.start.zf
          /\ cpu.idf = obs.start.idf
          /\ cpu.dmf = obs.start.dmf
          /\ cpu.bcf = obs.start.bcf
          /\ cpu.of = obs.start.of
          /\ cpu.nf = obs.start.nf
          /\ cpu.sp = obs.start.sp
          /\ cpu.pc = PROGRAM + 2

\* PHP ; PLP has run from SP = $00 with C, D and N set and Z, I, B and V
\* clear.
C13_Witness ==
    /\ obs.op = "step"
    /\ obs.opcode = \h28
    /\ obs.start.sp = \h00
    /\ obs.start.cf /\ obs.start.dmf /\ obs.start.nf
    /\ ~obs.start.zf /\ ~obs.start.idf /\ ~obs.start.bcf /\ ~obs.start.of
    /\ cpu.cf /\ cpu.dmf /\ cpu.nf /\ ~cpu.idf /\ ~cpu.bcf
    /\ cpu.sp = \h00

-----------------------------------------------------------------------------
(* Properties of ADC and SBC, checked under SpecAlu.                       *)

\* The call was name in binary (decimal = FALSE) or decimal mode.
AluDone(name, decimal) == obs.op = name /\ obs.pre.dmf = decimal /\ ~panicked

\* Bit 7 of a byte.
Sign(v) == v >= 128

\* C14: with D clear, for all bytes A and M tried and either carry C, ADC leaves
\* A' = (A + M + C) mod 256, C' iff A + M + C > 255, Z' iff A' = 0, N' = bit 7
\* of A', and V' iff A and M have the same sign bit and A' has another than A;
\* A = $50, M = $50, C = 0 gives A' = $A0, N, V, not Z, not C.
C14_AdcBinary ==
    AluDone("adc", FALSE) =>
        LET sum == obs.pre.a + obs.v + B(obs.pre.cf) IN
        /\ cpu.a = sum % 256
        /\ cpu.cf = (sum > 255)
        /\ cpu.zf = (cpu.a = 0)
        /\ cpu.nf = Sign(cpu.a)
        /\ cpu.of = (Sign(obs.pre.a) = Sign(obs.v) /\ Sign(cpu.a) # Sign(obs.pre.a))
        /\ (obs.pre.a = \h50 /\ obs.v = \h50 /\ ~obs.pre.cf) =>
              cpu.a = \ha0 /\ cpu.nf /\ cpu.of /\ ~cpu.zf /\ ~cpu.cf

\* ADC of $50 to $50 without carry, in binary mode, has left $A0 with N and V.
C14_Witness ==
    /\ AluDone("adc", FALSE)
    /\ obs.pre.a = \h50 /\ obs.v = \h50 /\ ~obs.pre.cf
    /\ cpu.a = \ha0 /\ cpu.nf /\ cpu.of /\ ~cpu.zf /\ ~cpu.cf

\* C15: with D clear, for all bytes A and M tried and either carry C, SBC
\* leaves A' = (A - M - (1 - C)) mod 256, C' iff there was no borrow
\* (A >= M + (1 - C)), Z' iff A' = 0, N' = bit 7 of A', and V' iff A and M
\* have different sign bits and A' has another than A.
C15_SbcBinary ==
    AluDone("sbc", FALSE) =>
        LET borrow == 1 - B(obs.pre.cf) IN
        /\ cpu.a = (obs.pre.a - obs.v - borrow) % 256
        /\ cpu.cf = (obs.pre.a >= obs.v + borrow)
        /\ cpu.zf = (cpu.a = 0)
        /\ cpu.nf = Sign(cpu.a)
        /\ cpu.of = (Sign(obs.pre.a) # Sign(obs.v) /\ Sign(cpu.a) # Sign(obs.pre.a))

\* SBC of $01 from $80 with the carry clear, in binary mode, has left $7E with
\* C and V set.
C15_Witness ==
    /\ AluDone("sbc", FALSE)
    /\ obs.pre.a = \h80 /\ obs.v = \h01 /\ ~obs.pre.cf
    /\ cpu.a = \h7e /\ cpu.cf /\ cpu.of /\ ~cpu.nf /\ ~cpu.zf

\* SBC was called with D clear, A = $50, operand $F0 and C set.
ScenarioS3 ==
    /\ AluDone("sbc", FALSE)
    /\ obs.pre.a = \h50 /\ obs.v = \hf0 /\ obs.pre.cf

\* C16 as the specification states it: in scenario S3 SBC leaves A = $60,
\* C clear and V set.
C16_S3_Stated == ScenarioS3 => (cpu.a = \h60 /\ ~cpu.cf /\ cpu.of)

\* C16: in scenario S3 (D clear, A = $50, operand $F0, C set) SBC leaves
\* A = $60 and C clear (a borrow), and V clear: $50 - $F0 is 80 - (-16) = 96,
\* which fits a signed byte.
C16_S3 == ScenarioS3 => (cpu.a = \h60 /\ ~cpu.cf /\ ~cpu.of)

\* Scenario S3 has run.
C16_Witness == ScenarioS3 /\ cpu.a = \h60 /\ ~cpu.cf /\ ~cpu.of /\ ~cpu.nf /\ ~cpu.zf

\* The number a BCD byte stands for, and the BCD byte of a number below 100.
FromBcd(b) == 10 * (b \div 16) + (b % 16)
ToBcd(n) == 16 * (n \div 10) + (n % 10)

\* C17: with D set, for all BCD bytes A and M (both nibbles in 0..9) and
\* either carry C, ADC leaves A' = the BCD byte of (dec(A) + dec(M) + C) mod 100
\* and C' iff dec(A) + dec(M) + C >= 100; A = $25, M = $27, C = 0 gives
\* A' = $52 and C clear.
C17_AdcDecimal ==
    (/\ AluDone("adc", TRUE)
     /\ obs.pre.a % 16 <= 9 /\ obs.pre.a \div 16 <= 9
     /\ obs.v % 16 <= 9 /\ obs.v \div 16 <= 9) =>
        LET sum == FromBcd(obs.pre.a) + FromBcd(obs.v) + B(obs.pre.cf) IN
        /\ cpu.a = ToBcd(sum % 100)
        /\ cpu.cf = (sum >= 100)
        /\ (obs.pre.a = \h25 /\ obs.v = \h27 /\ ~obs.pre.cf) => (cpu.a = \h52 /\ ~cpu.cf)

\* ADC of $27 to $25 without carry, in decimal mode, has left $52 and no
\* carry.
C17_Witness ==
    /\ AluDone("adc", TRUE)
    /\ obs.pre.a = \h25 /\ obs.v = \h27 /\ ~obs.pre.cf
    /\ cpu.a = \h52 /\ ~cpu.cf

-----------------------------------------------------------------------------
(* The cycle counts of the instructions, checked under SpecCpu.            *)

\* <<opcode, cycles>>: the base cycle count of each legal opcode in the MOS
\* 6502 documentation, without the penalties for a page crossing or a branch
\* taken.
StandardCycles ==
    {
     <<\h00, 7>>, <<\h01, 6>>, <<\h05, 3>>, <<\h06, 5>>, <<\h08, 3>>, <<\h09, 2>>, <<\h0a, 2>>,
     <<\h0d, 4>>, <<\h0e, 6>>, <<\h10, 2>>, <<\h11, 5>>, <<\h15, 4>>, <<\h16, 6>>, <<\h18, 2>>,
     <<\h19, 4>>, <<\h1d, 4>>, <<\h1e, 7>>, <<\h20, 6>>, <<\h21, 6>>, <<\h24, 3>>, <<\h25, 3>>,
     <<\h26, 5>>, <<\h28, 4>>, <<\h29, 2>>, <<\h2a, 2>>, <<\h2c, 4>>, <<\h2d, 4>>, <<\h2e, 6>>,
     <<\h30, 2>>, <<\h31, 5>>, <<\h35, 4>>, <<\h36, 6>>, <<\h38, 2>>, <<\h39, 4>>, <<\h3d, 4>>,
     <<\h3e, 7>>, <<\h40, 6>>, <<\h41, 6>>, <<\h45, 3>>, <<\h46, 5>>, <<\h48, 3>>, <<\h49, 2>>,
     <<\h4a, 2>>, <<\h4c, 3>>, <<\h4d, 4>>, <<\h4e, 6>>, <<\h50, 2>>, <<\h51, 5>>, <<\h55, 4>>,
     <<\h56, 6>>, <<\h58, 2>>, <<\h59, 4>>, <<\h5d, 4>>, <<\h5e, 7>>, <<\h60, 6>>, <<\h61, 6>>,
     <<\h65, 3>>, <<\h66, 5>>, <<\h68, 4>>, <<\h69, 2>>, <<\h6a, 2>>, <<\h6c, 5>>, <<\h6d, 4>>,
     <<\h6e, 6>>, <<\h70, 2>>, <<\h71, 5>>, <<\h75, 4>>, <<\h76, 6>>, <<\h78, 2>>, <<\h79, 4>>,
     <<\h7d, 4>>, <<\h7e, 7>>, <<\h81, 6>>, <<\h84, 3>>, <<\h85, 3>>, <<\h86, 3>>, <<\h88, 2>>,
     <<\h8a, 2>>, <<\h8c, 4>>, <<\h8d, 4>>, <<\h8e, 4>>, <<\h90, 2>>, <<\h91, 6>>, <<\h94, 4>>,
     <<\h95, 4>>, <<\h96, 4>>, <<\h98, 2>>, <<\h99, 5>>, <<\h9a, 2>>, <<\h9d, 5>>, <<\ha0, 2>>,
     <<\ha1, 6>>, <<\ha2, 2>>, <<\ha4, 3>>, <<\ha5, 3>>, <<\ha6, 3>>, <<\ha8, 2>>, <<\ha9, 2>>,
     <<\haa, 2>>, <<\hac, 4>>, <<\had, 4>>, <<\hae, 4>>, <<\hb0, 2>>, <<\hb1, 5>>, <<\hb4, 4>>,
     <<\hb5, 4>>, <<\hb6, 4>>, <<\hb8, 2>>, <<\hb9, 4>>, <<\hba, 2>>, <<\hbc, 4>>, <<\hbd, 4>>,
     <<\hbe, 4>>, <<\hc0, 2>>, <<\hc1, 6>>, <<\hc4, 3>>, <<\hc5, 3>>, <<\hc6, 5>>, <<\hc8, 2>>,
     <<\hc9, 2>>, <<\hca, 2>>, <<\hcc, 4>>, <<\hcd, 4>>, <<\hce, 6>>, <<\hd0, 2>>, <<\hd1, 5>>,
     <<\hd5, 4>>, <<\hd6, 6>>, <<\hd8, 2>>, <<\hd9, 4>>, <<\hdd, 4>>, <<\hde, 7>>, <<\he0, 2>>,
     <<\he1, 6>>, <<\he4, 3>>, <<\he5, 3>>, <<\he6, 5>>, <<\he8, 2>>, <<\he9, 2>>, <<\hea, 2>>,
     <<\hec, 4>>, <<\hed, 4>>, <<\hee, 6>>, <<\hf0, 2>>, <<\hf1, 5>>, <<\hf5, 4>>, <<\hf6, 6>>,
     <<\hf8, 2>>, <<\hf9, 4>>, <<\hfd, 4>>, <<\hfe, 7>>}

\* C18: for every legal opcode a step that returns adds to the 32-bit cycle
\* counter the base cycle count the MOS documentation gives for the opcode.
C18_StandardCycles ==
    (obs.op = "step" /\ ~panicked /\ obs.opcode \in LegalOpcodes) =>
        \E e \in StandardCycles :
            /\ e[1] = obs.opcode
            /\ cpu.cycles = Add32(obs.pre.cycles, e[2])

-----------------------------------------------------------------------------
(* Properties of CIA1's Timer A, checked under SpecCia.                    *)

\* The CPU cycles that CIA1's steps have seen since the timer was programmed.
CiaElapsed == cia1.prev_cpu_cycles

\* C19: Timer A programmed through the registers with latch L, control
\* register $19 (enable, load, OneTime, Processor input) and its IRQ enabled:
\* once CIA1's steps have seen L cycles or more, Timer A's enable flag is
\* false and its triggered flag is set, and the timer has fired once and no
\* more.
C19_OneShot ==
    (/\ obs.op = "step"
     /\ ~panicked
     /\ obs.cr = \h19
     /\ obs.icr = \h81
     /\ CiaElapsed >= obs.L) =>
        /\ ~cia1.timer_enabled["a"]
        /\ cia1.timer_irq_triggered["a"]
        /\ obs.fired = 1

\* C20: Timer A programmed with latch L >= 1, control register $11 (enable,
\* load, Restart, Processor input): after n cycles seen by CIA1's steps, each
\* step after an instruction of 2..7 cycles or an interrupt entry, the timer
\* has fired n \div L times, so exactly twice when 2L cycles have elapsed.
C20_Restart ==
    (/\ obs.op = "step"
     /\ ~panicked
     /\ obs.cr = \h11
     /\ obs.L >= 1) =>
        /\ obs.fired = CiaElapsed \div obs.L
        /\ CiaElapsed = 2 * obs.L => obs.fired = 2

-----------------------------------------------------------------------------
(* Properties of interrupt entry and return, checked under SpecRti.        *)

\* C38: after irq() taken with I clear, or nmi(), and the RTI that follows
\* it, PC, SP and the flags C, Z, I, D, V, N are what they were before the
\* entry.
C38_RtiInverse ==
    (obs.op = "rti" /\ ~panicked) =>
        /\ cpu.pc = obs.start.pc
        /\ cpu.sp = obs.start.sp
        /\ cpu.cf = obs.start.cf /\ cpu.zf = obs.start.zf /\ cpu.idf = obs.start.idf
        /\ cpu.dmf = obs.start.dmf /\ cpu.of = obs.start.of /\ cpu.nf = obs.start.nf

\* nmi() entered at PC = $C0FF with SP = $01, I clear and N set: the third
\* push wrapped to $01FF, and the RTI has come back.
C38_Witness ==
    /\ obs.op = "rti"
    /\ ~panicked
    /\ obs.how = "nmi"
    /\ obs.start.sp = \h01
    /\ obs.pre.sp = \hfe
    /\ obs.pre.pc = \h0310
    /\ cpu.pc = \hc0ff
    /\ cpu.nf /\ ~cpu.idf

-----------------------------------------------------------------------------
(* Properties of the host's quit, checked under SpecQuit.                  *)

\* The host has queued a Quit event that IO has not polled.
QuitQueued == \E i \in DOMAIN io.events : io.events[i].type = "Quit"

\* run_c64 has ended: it left its loop, or a step panicked.
Ended == loop = "exit" \/ panicked

\* C37: a Quit queued during the first frame leads to the end of run_c64; the
\* VIC step that completes a frame with a Quit queued makes IO's retval false
\* and nothing else does; IO's step returns retval, and run_c64 leaves the
\* loop at the IO step that follows, the next one after that VIC step.
C37_QuitEnds ==
    /\ (QuitQueued /\ vic.frame_c = 0) ~> Ended
    /\ [][/\ (QuitQueued /\ vic'.frame_c # vic.frame_c) => ~io'.retval
          /\ (io.retval /\ ~io'.retval) =>
                 /\ QuitQueued
                 /\ loop = "vic" /\ loop' = "io"
                 /\ vic'.frame_c # vic.frame_c
          /\ (loop = "io" /\ loop' # loop) =>
                 /\ obs'.ret = io.retval
                 /\ loop' = IF io.retval THEN "cia1" ELSE "exit"]_vars

\* run_c64 has ended at the IO step after the first frame.
C37_Witness ==
    /\ loop = "exit"
    /\ obs.op = "io"
    /\ ~obs.ret
    /\ vic.frame_c = 1

-----------------------------------------------------------------------------
(* Properties of CIA1's Timer A, checked under SpecCiaIrq.                 *)

\* C35: Timer A loaded with the latch L, enabled, counting CPU cycles: a step
\* that finds fewer than L cycles elapsed since the load leaves the triggered
\* flag clear and the CPU as it was, and the counter, as an unsigned 16-bit
\* number, is L less the elapsed cycles.
C35_WideLatch ==
    (obs.op = "step" /\ ~panicked /\ obs.pre.cpu.cycles < obs.L) =>
        /\ ~cia1.timer_irq_triggered["a"]
        /\ cpu = obs.pre.cpu
        /\ cia1.timer_counter["a"] % U16 = obs.L - obs.pre.cpu.cycles

\* C36: once Timer A's interrupt was raised with I set, the first step of CIA1
\* that finds I clear enters the IRQ handler.
C36_IrqPending ==
    (obs.op = "step" /\ ~panicked /\ obs.was /\ ~obs.pre.cpu.idf) =>
        /\ cpu.idf
        /\ cpu.pc = Vector(ADDR_IRQ_VECTOR)
        /\ cpu.sp = (obs.pre.cpu.sp - 3) % U8

-----------------------------------------------------------------------------
(* Properties of the registers and the steps of both CIAs, checked under   *)
(* SpecCias.                                                               *)

\* The chip an operation was on, as it is now.
Chip(name) == IF name = "cia1" THEN cia1 ELSE cia2

\* The bit of a register-$D byte that selects a timer.
MaskBit(t) == IF t = "a" THEN 0 ELSE 1

\* C21: on CIA1 and on CIA2, a write of v to register $D leaves a timer whose
\* mask bit in v is 0 with the IRQ-enable flag it had and gives a timer whose
\* mask bit is 1 the flag that bit 7 of v says; the two chips, written alike,
\* hold the same IRQ-enable flags.
C21_IcrMask ==
    (obs.op = "write" /\ obs.r = \hd) =>
        /\ \A name \in {"cia1", "cia2"}, t \in Timers :
             Chip(name).timer_irq_enabled[t] =
                 IF is_bit_set(obs.v, MaskBit(t)) THEN is_bit_set(obs.v, 7)
                 ELSE obs.pre[name].timer_irq_enabled[t]
        /\ cia1.timer_irq_enabled = cia2.timer_irq_enabled

\* C22: on either CIA a read of register $D returns bit 7 = some triggered
\* flag is set, bit 0 = Timer A's, bit 1 = Timer B's, and leaves both
\* triggered flags clear, so that a read that follows a read of the same chip
\* with nothing in between returns 0.
C22_IcrRead ==
    obs.op = "read" =>
        /\ is_bit_set(obs.val, 0) = obs.pre[obs.chip].timer_irq_triggered["a"]
        /\ is_bit_set(obs.val, 1) = obs.pre[obs.chip].timer_irq_triggered["b"]
        /\ is_bit_set(obs.val, 7) = (\E t \in Timers :
                                        obs.pre[obs.chip].timer_irq_triggered[t])
        /\ \A t \in Timers : ~Chip(obs.chip).timer_irq_triggered[t]
        /\ obs.prev = "read" => obs.val = 0

\* The CPU cycles a step of the chip finds elapsed since its last step.
Elapsed(name) == obs.pre.cpu.cycles - obs.pre[name].prev_cpu_cycles

\* Timer t of the chip is enabled, counts CPU cycles and the elapsed cycles
\* take its counter to 0 or below: the step finds it expired.
Expires(name, t) ==
    /\ obs.pre[name].timer_enabled[t]
    /\ obs.pre[name].timer_input_mode[t] = Processor
    /\ obs.pre[name].timer_counter[t] - Elapsed(name) <= 0

\* Since the step began the CPU has entered the IRQ handler once.
IrqEntered ==
    /\ ~obs.pre.cpu.idf
    /\ cpu = [obs.pre.cpu EXCEPT !.idf = TRUE,
                                 !.pc = Vector(ADDR_IRQ_VECTOR),
                                 !.sp = (@ - 3) % U8,
                                 !.cycles = Add32(@, 7)]

\* Since the step began the CPU has entered the NMI handler k times.
NmiEntered(k) ==
    cpu = [obs.pre.cpu EXCEPT !.pc = Vector(ADDR_NMI_VECTOR),
                              !.sp = (@ - 3 * k) % U8,
                              !.cycles = Add32(@, 7 * k)]

\* C23: after a step of a CIA, a timer that expired with its IRQ enabled has
\* its triggered flag set and the chip's line was raised: on CIA1 the CPU has
\* entered the IRQ handler (or, with I set, is as it was) and is never in the
\* NMI handler; on CIA2 it has entered the NMI handler and never the IRQ
\* handler.  A timer whose IRQ is disabled keeps its triggered flag, and with
\* both IRQs disabled the CPU and the memory are as they were.
C23_OwnLine ==
    (obs.op = "step" /\ ~panicked) =>
        LET name   == obs.chip
            raised == {t \in Timers :
                          Expires(name, t) /\ obs.pre[name].timer_irq_enabled[t]}
        IN  /\ \A t \in raised : Chip(name).timer_irq_triggered[t]
            /\ \A t \in Timers :
                 ~obs.pre[name].timer_irq_enabled[t] =>
                     Chip(name).timer_irq_triggered[t]
                         = obs.pre[name].timer_irq_triggered[t]
            /\ (\A t \in Timers : ~obs.pre[name].timer_irq_enabled[t]) =>
                 cpu = obs.pre.cpu /\ mem_ram = obs.pre.mem_ram
            /\ name = "cia1" =>
                 IF raised # {} /\ ~obs.pre.cpu.idf THEN IrqEntered
                 ELSE cpu = obs.pre.cpu
            /\ name = "cia2" =>
                 IF raised # {} THEN \E k \in Cardinality(raised)..2 : NmiEntered(k)
                 ELSE cpu = obs.pre.cpu \/ \E k \in 1..2 : NmiEntered(k)

\* CIA1's Timer A expired with its IRQ enabled and I clear and the CPU went
\* to the IRQ vector's $0300; in the step of CIA2 that followed, its Timer A
\* expired as well and took the CPU, I set, to the NMI vector's $0310.
C23_Witness ==
    /\ obs.op = "step"
    /\ obs.chip = "cia2"
    /\ ~panicked
    /\ Expires("cia2", "a")
    /\ obs.pre.cia2.timer_irq_enabled["a"]
    /\ obs.pre.cia1.timer_irq_triggered["a"]
    /\ obs.pre.cpu.pc = \h0300
    /\ obs.pre.cpu.idf
    /\ cia2.timer_irq_triggered["a"]
    /\ cpu.pc = \h0310
    /\ cpu.sp = \hf9

\* Timer t of the chip was disabled, or its control register was last written
\* with an input other than Processor, when the step began.
Idle(name, t) ==
    \/ ~obs.pre[name].timer_enabled[t]
    \/ obs.pre[name].timer_input_mode[t] # Processor

\* C30: a step of CIA1 or CIA2 leaves the counter, the triggered flag and the
\* enable flag of a timer that is disabled or has a non-Processor input as
\* they were, and with both timers so it raises no interrupt: the CPU and the
\* memory are as they were.
C30_IdleTimers ==
    (obs.op = "step" /\ ~panicked) =>
        LET name == obs.chip
        IN  /\ \A t \in Timers :
                 Idle(name, t) =>
                     /\ Chip(name).timer_counter[t] = obs.pre[name].timer_counter[t]
                     /\ Chip(name).timer_irq_triggered[t]
                            = obs.pre[name].timer_irq_triggered[t]
                     /\ Chip(name).timer_enabled[t] = obs.pre[name].timer_enabled[t]
            /\ (\A t \in Timers : Idle(name, t)) =>
                 cpu = obs.pre.cpu /\ mem_ram = obs.pre.mem_ram

-----------------------------------------------------------------------------
(* Properties of the VIC's raster engine, checked under SpecVic.           *)

\* The step that was just taken processed a raster line to its end.
LineDone == obs.op = "step" /\ obs.due /\ obs.ret /\ ~panicked

\* C24: the raster counter is always in 0..311; a processed line takes it one
\* further, from 311 to 0; and the frame counter is the number of processed
\* lines divided by 312, one increment (with its screen refresh) per 312
\* lines.
C24_RasterRange ==
    /\ raster_counter(vic) \in 0..(SCREEN_LINES - 1)
    /\ LineDone =>
         raster_counter(vic) = (raster_counter(obs.pre.vic) + 1) % SCREEN_LINES
    /\ vic.frame_c = obs.lines \div SCREEN_LINES

\* Bit 0 (raster) of a VIC's IRQ status.
RasterPending(v) == is_bit_set(v.irq_status, 0)

\* The step that was just taken found line K due with the raster IRQ enabled.
LineK ==
    /\ obs.due
    /\ raster_counter(obs.pre.vic) = obs.K
    /\ is_bit_set(obs.pre.vic.irq_enabled, 0)

\* C25: with the compare value K of the program in the registers, a step sets
\* IRQ-status bit 0 when it processes line K with the raster IRQ enabled and
\* on no other line, and line K comes once in a frame; a write of $19 with
\* bit 0 set clears the bit, the read of $19 after it has bit 7 clear, and a
\* step that leaves the bit clear has raised no IRQ: the CPU is as it was.
C25_RasterIrq ==
    /\ obs.op # "new" => vic.raster_irq = obs.K
    /\ (obs.op = "step" /\ ~panicked) =>
         /\ LineK => RasterPending(vic)
         /\ (RasterPending(vic) /\ ~RasterPending(obs.pre.vic)) => LineK
         /\ obs.ended => obs.seen = 1
         /\ ~RasterPending(vic) => cpu = obs.pre.cpu /\ mem_ram = obs.pre.mem_ram
    /\ (obs.op = "ack" /\ is_bit_set(obs.v, 0)) =>
         /\ ~RasterPending(vic)
         /\ ~is_bit_set(obs.val, 7)

\* The raster IRQ of line 1 was acknowledged in the first frame and I was
\* cleared; the step that processed line 1 of the second frame set the bit
\* again and took the CPU to the IRQ handler.
C25_Witness ==
    /\ obs.op = "step"
    /\ ~panicked
    /\ obs.K = 1
    /\ vic.frame_c = 1
    /\ LineK
    /\ ~RasterPending(obs.pre.vic)
    /\ RasterPending(vic)
    /\ IrqEntered
    /\ cpu.pc = \h0300

\* C28: a raster IRQ that is pending stays pending through the steps, the
\* instructions and CLI until it is acknowledged; a step that finds it pending
\* with I set leaves the CPU as it was, and a step that finds it pending with
\* I clear takes the CPU into the IRQ handler: the return address and the
\* status pushed, I set, PC from $FFFE/$FFFF.
C28_NeverLost ==
    (obs.op \in {"step", "cpu", "cli"} /\ ~panicked /\ RasterPending(obs.pre.vic)) =>
        /\ RasterPending(vic)
        /\ obs.op = "step" =>
             IF obs.pre.cpu.idf THEN cpu = obs.pre.cpu
             ELSE /\ IrqEntered
                  /\ Peek(mem_ram, BASE_ADDR_STACK + obs.pre.cpu.sp)
                         = obs.pre.cpu.pc \div 256
                  /\ Peek(mem_ram, BASE_ADDR_STACK + ((obs.pre.cpu.sp - 1) % U8))
                         = obs.pre.cpu.pc % 256

\* I was cleared a second time with the IRQ of line 1 still unacknowledged:
\* the step after the CLI, with no line due, entered the handler a second
\* time.
C28_Witness ==
    /\ obs.op = "step"
    /\ ~panicked
    /\ ~obs.due
    /\ obs.cli = 2
    /\ RasterPending(obs.pre.vic)
    /\ ~obs.pre.cpu.idf
    /\ obs.pre.cpu.sp = \hfc
    /\ cpu.sp = \hf9
    /\ cpu.idf
    /\ cpu.pc = \h0300

\* C29: in every graphics mode a step of the VIC returns true and, when the
\* CPU's cycles have reached next_raster_at, moves next_raster_at and the
\* raster counter on.
C29_ModesRun ==
    (obs.op = "step" /\ ~panicked) =>
        /\ obs.ret
        /\ ~Lt32(obs.pre.cpu.cycles, obs.pre.vic.next_raster_at) =>
             /\ vic.next_raster_at # obs.pre.vic.next_raster_at
             /\ raster_counter(vic) # raster_counter(obs.pre.vic)

\* Line R is a bad line for the control register cr1.
BadLine(R, cr1) == R >= 48 /\ R <= 247 /\ R % 8 = cr1 % 8

\* C32: a step that processes a raster line adds 23 to next_raster_at if the
\* line it enters is a bad line and 63 otherwise; nothing else changes
\* next_raster_at.
C32_LineCycles ==
    IF LineDone
    THEN vic.next_raster_at - obs.pre.vic.next_raster_at
            = (IF BadLine(raster_counter(vic), vic.cr1) THEN 23 ELSE 63)
    ELSE obs.op # "new" => vic.next_raster_at = obs.pre.vic.next_raster_at

-----------------------------------------------------------------------------
(* Properties of the VIC's registers, checked under SpecVicRegs.           *)

\* The mode that the bits ECM, BMM and MCM stand for.
ModeOf(ecm, bmm, mcm) ==
    CASE <<ecm, bmm, mcm>> = <<0, 0, 0>> -> "CharMode"
      [] <<ecm, bmm, mcm>> = <<0, 0, 1>> -> "MCCharMode"
      [] <<ecm, bmm, mcm>> = <<0, 1, 0>> -> "BitmapMode"
      [] <<ecm, bmm, mcm>> = <<0, 1, 1>> -> "MCBitmapMode"
      [] <<ecm, bmm, mcm>> = <<1, 0, 0>> -> "ExitBgMode"
      [] OTHER -> "IllegalMode"

\* C26: in every state, after any writes of the registers and any raster
\* steps, the graphics mode is the one that ECM = CR1 bit 6, BMM = CR1 bit 5
\* and MCM = CR2 bit 4 stand for.
C26_GraphicMode ==
    vic.graphic_mode = ModeOf((vic.cr1 \div 64) % 2, (vic.cr1 \div 32) % 2,
                              (vic.cr2 \div 16) % 2)

\* CR1 and CR2 were written on line 255 for MCBitmapMode; the step that took
\* the raster counter to 256 put bit 8 into CR1 bit 7 and the mode stands.
C26_Witness ==
    /\ obs.op = "step"
    /\ ~panicked
    /\ obs.n = 2
    /\ raster_counter(vic) = 256
    /\ vic.cr1 = \hbb
    /\ vic.cr2 = \h18
    /\ vic.graphic_mode = "MCBitmapMode"

\* C27: after a write of v to register $18, char_mem = (v & $0E) << 10,
\* screen_mem = (v & $F0) << 6 and bitmap_mem = (v & $08) << 10, as 16-bit
\* values.
C27_MemPointers ==
    (obs.op = "write" /\ obs.r = \h18) =>
        /\ vic.char_mem = ((obs.v \div 2) % 8) * 2048
        /\ vic.screen_mem = (obs.v \div 16) * 1024
        /\ vic.bitmap_mem = ((obs.v \div 8) % 2) * 8192

\* C34: a write of CR1 ($11) leaves the 9-bit raster counter as it was,
\* also when the counter is 256 or more.
C34_Cr1KeepsRaster ==
    (obs.op = "write" /\ obs.r = \h11) =>
        raster_counter(vic) = raster_counter(obs.pre.vic)

-----------------------------------------------------------------------------
(* Properties of the sprite registers, checked under SpecSprites.          *)

\* C33: for every sprite n, a write of v to register 2n or 2n+1 changes that
\* coordinate of sprite n to v and nothing else of the VIC, and a read of the
\* register then returns v.
C33_SpritePosition ==
    /\ obs.op = "write" =>
         vic = IF obs.r % 2 = 0
               THEN [obs.pre.vic EXCEPT !.mx[obs.r \div 2] = obs.v]
               ELSE [obs.pre.vic EXCEPT !.my[obs.r \div 2] = obs.v]
    /\ obs.op = "read" => obs.val = obs.v

-----------------------------------------------------------------------------
(* Properties of the pixels the VIC draws, checked under SpecDraw.         *)

\* C39: every pixel the VIC draws for a sprite has x < 403 and y < 284, so its
\* index y * 403 + x is in the frame and in row y.
C39_PixelsInFrame ==
    \A px \in obs.pixels :
        /\ px[1] < VISIBLE_SCREEN_WIDTH
        /\ px[2] < VISIBLE_SCREEN_HEIGHT
        /\ px[2] * VISIBLE_SCREEN_WIDTH + px[1]
               < VISIBLE_SCREEN_WIDTH * VISIBLE_SCREEN_HEIGHT

-----------------------------------------------------------------------------
(* Properties of the keyboard, checked under SpecKeys.                     *)

\* The AND of the rows i..7 of the keyboard matrix.
RECURSIVE AndOfRows(_)
AndOfRows(i) ==
    IF i = 7 THEN io.keyboard_matrix[7]
    ELSE BitAnd(io.keyboard_matrix[i], AndOfRows(i + 1))

\* C31: a read of CIA1's PRB returns $FF when PRA is $FF, the AND of the
\* eight rows or $FF when PRA is 0, and row c when bit c is the one zero bit
\* of PRA; the read changes nothing of the CIAs and of the keyboard.
C31_ReadPrb ==
    obs.op = "read" =>
        /\ cia1.pra = \hff => obs.val = \hff
        /\ cia1.pra = \h00 => obs.val \in {AndOfRows(0), \hff}
        /\ \A c \in 0..7 : cia1.pra = 255 - 2 ^ c => obs.val = io.keyboard_matrix[c]
        /\ cia1 = obs.pre.cia1 /\ cia2 = obs.pre.cia2 /\ io = obs.pre_io

\* C40: a bit of the keyboard matrix is 0 iff a key with an entry in the
\* keymap for that position is down.
C40_MatrixHeld ==
    \A row \in 0..7, col \in 0..7 :
        ((io.keyboard_matrix[row] \div 2 ^ col) % 2 = 0)
            <=> (\E k \in obs.held \cap DOMAIN keymap : keymap[k] = <<row, col>>)

=============================================================================
